---- MODULE Spec2Model ----
(***************************************************************************)
(* A model of adsyslib's container runner (container/manager.py,           *)
(* DockerManager), of its command executor and shell sessions (core.py,    *)
(* run and Shell), of the bulk creation of OAuth providers                 *)
(* (authentik/oauth.py, create_providers_bulk), of two commands of the     *)
(* command line (cli/commands), of the Terraform external data handler     *)
(* (iac/terraform.py), of IOCatcher (io_utils.py), of the package          *)
(* managers (packages), of the Keycloak to Authentik migrator              *)
(* (keycloak/migrate.py) and of InteractiveSession (interact.py).  Each    *)
(* part has its own variables and its own specification; the other parts   *)
(* stay idle.                                                              *)
(*                                                                         *)
(* The container runtime is an external collaborator: it is modelled by    *)
(* its registry (images, containers), by the outcome of each API call      *)
(* (normal return, NotFound, any other error) and by what a container      *)
(* does on its own (print a line, exit, be auto-removed).  Every API call  *)
(* the manager issues is appended to `calls`, in order, with its outcome.  *)
(***************************************************************************)
EXTENDS Integers, Sequences, FiniteSets, TLC

VARIABLES
    client,       \* DockerManager.client: "ok", or "none" when the daemon was down
    images,       \* runtime: the images in the local cache
    containers,   \* runtime: container name/id -> "absent" | "running" | "exited"
    auto_rm,      \* runtime: the containers started with remove=True
    op,           \* the public operation in progress or last finished
    pc,           \* the position of that operation in its code
    args,         \* the arguments of that operation
    calls,        \* the runtime API calls the operation has issued, in order
    now,          \* time.time(), relative to the start of the operation
    start_time,   \* run_container: start_time
    found,        \* run_container: found
    container,    \* run_container: container (the id of the started container)
    line,         \* run_container: the line the log iterator has just yielded
    exc,          \* run_container: the exception in flight inside the try block
    wait_exit,    \* run_container: how the log-wait loop was left
    result,       \* what the operation returned to its caller
    error,        \* what the operation raised to its caller
    again,        \* history: this stop_container repeats one that found the
                  \* same container gone
    run_pc,       \* core.run: the position of the call in its code
    run_args,     \* core.run: the arguments of the call
    proc,         \* core.run: proc, the completed child (subprocess.run's value)
    duration,     \* core.run: duration
    run_result,   \* core.run: the CommandResult returned to the caller
    run_error,    \* core.run: the exception raised to the caller
    seen,         \* history: the outcomes of the current command, by check
    child,        \* core.run: the child process: "none" | "exited" | "killed"
    environ,      \* os.environ, the environment of the calling process
    os_cwd,       \* os.getcwd(), the working directory of the calling process
    caller_env,   \* a dict owned by the calling program, passed as env=
    shells,       \* the Shell objects constructed so far
    shell_cwd,    \* Shell.cwd, per session
    shell_env,    \* Shell.env, per session: which dict object it is:
                  \*   "caller" (the caller's dict) | "own" (a copy of os.environ)
    copies,       \* the copies of os.environ made by Shell.__init__, per session
    last,         \* the call made last on a session, on core.run or by the caller
    sh_ret,       \* what that call returned or raised
    spawn,        \* the cwd and env that call handed to subprocess.run
    last_set,     \* history: the value last set through each session's setenv
    providers,    \* Authentik: the client ids of the OAuth2 providers it holds
    bulk_pc,      \* create_providers_bulk: the position of the call in its code
    configs,      \* create_providers_bulk: configs
    bulk_i,       \* create_providers_bulk: the index of the config to try next
    results,      \* create_providers_bulk: results
    attempts,     \* the create_provider calls made, in order, with their outcome
    cli_cmd,      \* CLI: the command the process was started for
    cli_pc,       \* CLI: the position of the command in its code
    cli_wrapped,  \* CLI: what the wrapped run call returned or raised
    cli_out,      \* CLI: the markers printed on the console, in order
    cli_exit,     \* CLI: the exit status of the process
    tf_pc,        \* external_data_handler: the position in its code
    tf_stdin,     \* external_data_handler: the text on standard input
    tf_calls,     \* external_data_handler: the arguments the function got
    tf_result,    \* external_data_handler: result
    tf_exc,       \* external_data_handler: the exception raised in the try block
    tf_stdout,    \* external_data_handler: the text written to standard output
    tf_stderr,    \* external_data_handler: the text written to standard error
    tf_exit,      \* external_data_handler: the exit status of the process
    io_pc,        \* IOCatcher: before the with statement, in its body, at its exit, after
    io_fds,       \* IOCatcher: the file each descriptor of the process names
    io_files,     \* IOCatcher: what was written to each file
    io_buf,       \* IOCatcher: the unflushed text of sys.stdout and sys.stderr
    io_self,      \* IOCatcher: the fields of the catcher
    io_body,      \* IOCatcher: how the body of the with statement ended
    io_failed,    \* IOCatcher: the streams whose restoring raised
    io_exc,       \* IOCatcher: the exception that leaves the with statement
    io_writes,    \* IOCatcher: the number of writes so far
    pk_mgr,       \* packages: the manager (Apt or Dnf, with or without sudo)
    pk_db,        \* packages: the packages installed on the system
    pk_before,    \* packages: the packages installed when the last call began
    pk_args,      \* packages: the arguments of the last call
    pk_cmds,      \* packages: the commands the last call ran, in order
    pk_ret,       \* packages: what the last call returned or raised
    mig_cfg,      \* migrator: dry_run and default_password
    kc_groups,    \* migrator: the groups Keycloak lists
    kc_users,     \* migrator: the users Keycloak exports
    ak_groups,    \* migrator: the names of the groups Authentik holds
    ak_users,     \* migrator: the usernames of the users Authentik holds
    report,       \* migrator: migration_report
    mig_op,       \* migrator: the method called by the program
    mig_pc,       \* migrator: the position of that call
    mig_i,        \* migrator: the index of the item the loop handles next
    group_mapping, \* migrator: group_mapping of migrate_groups
    mig_arg,      \* migrator: group_mapping of migrate_users
    user_results, \* migrator: results of migrate_users
    mig_calls,    \* migrator: the requests the call made to Authentik, in order
    mig_before,   \* migrator: migration_report when the call began
    mig_prev,     \* migrator: whether the last call was a migrate_all without failure
    mig_n,        \* migrator: the number of calls so far
    mig_fails,    \* migrator: the number of requests that failed so far
    is_child,     \* InteractiveSession: the child (none, running, exited, closed)
    is_buf,       \* InteractiveSession: what the child printed and expect has not used
    is_op,        \* InteractiveSession: the method called by the program
    is_pc,        \* InteractiveSession: the position of that call
    is_pairs,     \* InteractiveSession: the interactions of that call
    is_i,         \* InteractiveSession: the index of the pair handled next
    is_sent,      \* InteractiveSession: the responses that call sent, in order
    is_error,     \* InteractiveSession: the exception that call raised
    is_spawns,    \* InteractiveSession: the number of children started
    is_prints,    \* InteractiveSession: the number of prompts printed so far
    is_ops        \* InteractiveSession: the number of calls so far

dvars == <<client, images, containers, auto_rm, op, pc, args, calls, now,
           start_time, found, container, line, exc, wait_exit, result, error,
           again>>
cvars == <<run_pc, run_args, proc, duration, run_result, run_error, seen,
           child>>
svars == <<environ, os_cwd, caller_env, shells, shell_cwd, shell_env, copies,
           last, sh_ret, spawn, last_set>>
bvars == <<providers, bulk_pc, configs, bulk_i, results, attempts>>
clivars == <<cli_cmd, cli_pc, cli_wrapped, cli_out, cli_exit>>
tvars == <<tf_pc, tf_stdin, tf_calls, tf_result, tf_exc, tf_stdout,
           tf_stderr, tf_exit>>
ivars == <<io_pc, io_fds, io_files, io_buf, io_self, io_body, io_failed,
           io_exc, io_writes>>
pvars == <<pk_mgr, pk_db, pk_before, pk_args, pk_cmds, pk_ret>>
mvars == <<mig_cfg, kc_groups, kc_users, ak_groups, ak_users, report, mig_op,
           mig_pc, mig_i, group_mapping, mig_arg, user_results, mig_calls,
           mig_before, mig_prev, mig_n, mig_fails>>
xvars == <<is_child, is_buf, is_op, is_pc, is_pairs, is_i, is_sent, is_error,
           is_spawns, is_prints, is_ops>>
vars ==
         <<dvars, cvars, svars, bvars, clivars, tvars, ivars, pvars, mvars,
         xvars>>

\* what the steps of one part of the library leave alone
notDocker ==
    <<cvars, svars, bvars, clivars, tvars, ivars, pvars, mvars, xvars>>
notCore == <<dvars, svars, bvars, clivars, tvars, ivars, pvars, mvars, xvars>>
notShell ==
    <<dvars, cvars, bvars, clivars, tvars, ivars, pvars, mvars, xvars>>
notBulk == <<dvars, cvars, svars, clivars, tvars, ivars, pvars, mvars, xvars>>
notCli == <<dvars, cvars, svars, tvars, ivars, pvars, mvars, xvars>>
notTf == <<dvars, cvars, svars, bvars, clivars, ivars, pvars, mvars, xvars>>
notIo == <<dvars, cvars, svars, bvars, clivars, tvars, pvars, mvars, xvars>>
notPkg == <<dvars, cvars, svars, bvars, clivars, tvars, ivars, mvars, xvars>>
notMig == <<dvars, cvars, svars, bvars, clivars, tvars, ivars, pvars, xvars>>
notIs == <<dvars, cvars, svars, bvars, clivars, tvars, ivars, pvars, mvars>>

(***************************************************************************)
(* Bounds of the model.                                                    *)
(***************************************************************************)
MaxLineLen == 2       \* longest log line, in bytes
MaxTimeout == 1       \* largest wait_timeout (and stop timeout) tried
MaxStart == 1         \* latest time at which the log-wait phase may start
MaxDur == 2           \* longest a child process runs
MaxConfigs == 2       \* longest list given to create_providers_bulk

(***************************************************************************)
(* Values.                                                                 *)
(***************************************************************************)
None == "None"
NoArg == -1                     \* a call made without a timeout argument
Images == {"img"}
Names == {"X"}                  \* names a caller may give
AnonId == "anon"                \* the id of a container started without a name
Ids == Names \cup {AnonId}
WS == " "                       \* a whitespace byte (space, \n, \r, \t)
Bad == "?"                      \* a byte that is not valid UTF-8
Chars == {"R", WS}
Bytes == Chars \cup {Bad}
NoLine == <<"-">>               \* no line in hand

SeqsUpTo(S, n) == UNION {[1..k -> S] : k \in 0..n}
Lines == SeqsUpTo(Bytes, MaxLineLen)
\* wait_for_log values; <<>> stands for None and for "", both falsy
WaitStrings == {<<>>, <<"R">>, <<"R", WS>>}

Call(api, target, ret, timeout) ==
    [api |-> api, target |-> target, ret |-> ret, timeout |-> timeout]


(***************************************************************************)
(* Pure helpers.                                                           *)
(***************************************************************************)
\* bytes.decode('utf-8') succeeds iff every byte is valid
DecodeOk(b) == \A i \in 1..Len(b) : b[i] # Bad

RECURSIVE LStrip(_)
LStrip(s) == IF s # <<>> /\ Head(s) = WS THEN LStrip(Tail(s)) ELSE s

RECURSIVE RStrip(_)
RStrip(s) ==
    IF s # <<>> /\ s[Len(s)] = WS THEN RStrip(SubSeq(s, 1, Len(s) - 1)) ELSE s

\* str.strip()
Strip(s) == RStrip(LStrip(s))

\* Python's `sub in s` on strings
Contains(s, sub) ==
    \E i \in 0..(Len(s) - Len(sub)) : SubSeq(s, i + 1, i + Len(sub)) = sub

\* line 81: line_str = line.decode('utf-8').strip()
LineStr(b) == Strip(b)

\* line 84: wait_for_log in line_str
Matches(wait, line_str) == Contains(line_str, wait)

\* a deadline check with the comparison turned around
TimedOut_Reversed(t, start, timeout) == t - start < timeout

\* line 89: time.time() - start_time > wait_timeout
TimedOut(t, start, timeout) == t - start > timeout

\* line 74: wait_for_log and detach
WantsWait(a) == a.wait_for_log # <<>> /\ a.detach

\* line 54: if name
HasName(a) == a.name # None

\* the number of stop calls issued on container c
StopCount(c) == Cardinality({i \in 1..Len(calls) :
                                calls[i].api = "stop" /\ calls[i].target = c})

ApiCalls(api) == {i \in 1..Len(calls) : calls[i].api = api}

Finished == pc \in {"returned", "raised"}
CanBegin == pc \in {"idle", "returned", "raised"}

(***************************************************************************)
(* The runtime's side of each call.                                        *)
(***************************************************************************)
\* the outcomes a call on container c can have
ContainerCallRets(c) ==
    IF containers[c] = "absent" THEN {"NotFound"} ELSE {"ok", "APIError"}

\* the registry after container.stop() returned r
AfterStop(c, r) ==
    IF r = "ok" /\ containers[c] = "running"
    THEN [containers EXCEPT ![c] = "exited"]
    ELSE containers

\* the registry after container.remove(force=True) returned r
AfterRemove(c, r) ==
    IF r = "ok" THEN [containers EXCEPT ![c] = "absent"] ELSE containers

(***************************************************************************)
(* Initial state: a constructed DockerManager (lines 15-21) and a runtime  *)
(* in any state.                                                           *)
(***************************************************************************)
DockerInit ==
    /\ client \in {"ok", "none"}
    /\ images \in SUBSET Images
    /\ containers \in [Ids -> {"absent", "running", "exited"}]
    /\ containers[AnonId] = "absent"
    /\ auto_rm = {}
    /\ op = None
    /\ pc = "idle"
    /\ args = [image |-> None]
    /\ calls = <<>>
    /\ now = 0
    /\ start_time = 0
    /\ found = FALSE
    /\ container = None
    /\ line = NoLine
    /\ exc = None
    /\ wait_exit = None
    /\ result = None
    /\ error = None
    /\ again = FALSE

\* the locals of the operation's frame
locals == <<now, start_time, found, container, line, exc>>
runtime == <<client, images, containers, auto_rm>>
call == <<op, args, again>>

\* the frame is discarded when the operation returns or raises
FrameGone ==
    /\ now' = 0
    /\ start_time' = 0
    /\ found' = FALSE
    /\ container' = None
    /\ line' = NoLine
    /\ exc' = None

Return(v) == pc' = "returned" /\ result' = v /\ error' = error /\ FrameGone
Raise(e) == pc' = "raised" /\ error' = e /\ result' = result /\ FrameGone
Goto(p) == pc' = p /\ UNCHANGED <<result, error>>

\* what a public operation finds when it is entered
Enter(o, a) ==
    /\ CanBegin
    /\ op' = o
    /\ args' = a
    /\ again' = (o = "stop_container" /\ op = "stop_container"
                 /\ pc = "returned"
                 /\ a.name_or_id = args.name_or_id
                 /\ containers[a.name_or_id] = "absent")
    /\ pc' = "check_client"
    /\ calls' = <<>>
    /\ wait_exit' = None
    /\ result' = None
    /\ error' = None
    /\ UNCHANGED <<runtime, locals, notDocker>>

RunArgs ==
    [image : Images, name : Names \cup {None}, detach : BOOLEAN,
     wait_for_log : WaitStrings, wait_timeout : 0..MaxTimeout,
     auto_remove : BOOLEAN]

\* lines 27-39: run_container is called
RunContainer == \E a \in RunArgs : Enter("run_container", a)

\* a test that takes every client for a connected one
ClientMissing_Never(c) == FALSE

\* line 24: not self.client
ClientMissing(c) == c = "none"

\* lines 23-25, called at lines 44 and 102
CheckClient ==
    /\ pc = "check_client"
    /\ IF ClientMissing(client)
       THEN Raise("RuntimeError")
       ELSE /\ Goto(IF op = "run_container" THEN "images_get" ELSE "sc_get")
            /\ UNCHANGED locals
    /\ UNCHANGED <<runtime, call, notDocker, calls, wait_exit>>

\* the outcomes of client.images.get(image)
ImageGetRets(image) == IF image \in images THEN {"ok", "APIError"}
                       ELSE {"NotFound", "APIError"}

\* lines 47-51: what follows the image lookup; only NotFound leads to the pull
ImagesGetNext(r) == CASE r = "ok" -> "cleanup"
                      [] r = "NotFound" -> "pull"
                      [] OTHER -> "raised"

\* lines 47-50: the image lookup
ImagesGet ==
    /\ op = "run_container" /\ pc = "images_get"
    /\ \E r \in ImageGetRets(args.image) :
        /\ calls' = Append(calls, Call("images.get", args.image, r, NoArg))
        /\ IF ImagesGetNext(r) = "raised"
           THEN Raise(r)
           ELSE Goto(ImagesGetNext(r)) /\ UNCHANGED locals
    /\ UNCHANGED <<runtime, call, notDocker, wait_exit>>

\* a pull whose failure is swallowed
ImagesPullNext_Swallow(r) == "cleanup"

\* line 51: a failed pull is not caught
ImagesPullNext(r) == IF r = "ok" THEN "cleanup" ELSE "raised"

\* line 51: client.images.pull(image)
ImagesPull ==
    /\ op = "run_container" /\ pc = "pull"
    /\ \E r \in {"ok", "APIError"} :
        /\ calls' = Append(calls, Call("images.pull", args.image, r, NoArg))
        /\ images' = IF r = "ok" THEN images \cup {args.image} ELSE images
        /\ IF ImagesPullNext(r) = "raised"
           THEN Raise(r)
           ELSE Goto(ImagesPullNext(r)) /\ UNCHANGED locals
    /\ UNCHANGED <<client, containers, auto_rm, call, notDocker, wait_exit>>

\* a lookup that goes on to the start without removing what it found
CleanupNext_NoRemove(r) == CASE r \in {"ok", "NotFound"} -> "run"
                             [] OTHER -> "raised"

\* lines 55-60: what follows the lookup of the name
CleanupNext(r) == CASE r = "ok" -> "remove"
                    [] r = "NotFound" -> "run"
                    [] OTHER -> "raised"

\* lines 54-56, 59-60: the lookup of a container of the same name
Cleanup ==
    /\ op = "run_container" /\ pc = "cleanup"
    /\ IF HasName(args)
       THEN \E r \in ContainerCallRets(args.name) :
            /\ calls' = Append(calls, Call("containers.get", args.name, r, NoArg))
            /\ IF CleanupNext(r) = "raised"
               THEN Raise(r)
               ELSE Goto(CleanupNext(r)) /\ UNCHANGED locals
       ELSE /\ Goto("run")
            /\ UNCHANGED <<calls, locals>>
    /\ UNCHANGED <<runtime, call, notDocker, wait_exit>>

\* lines 57-60: existing.remove(force=True); NotFound is passed over
RemoveExisting ==
    /\ op = "run_container" /\ pc = "remove"
    /\ \E r \in ContainerCallRets(args.name) :
        /\ calls' = Append(calls, Call("remove_force", args.name, r, NoArg))
        /\ containers' = AfterRemove(args.name, r)
        /\ auto_rm' = IF r = "ok" THEN auto_rm \ {args.name} ELSE auto_rm
        /\ IF r = "APIError"
           THEN Raise(r)
           ELSE Goto("run") /\ UNCHANGED locals
    /\ UNCHANGED <<client, images, call, notDocker, wait_exit>>

\* the id the runtime gives the new container
NewId(a) == IF HasName(a) THEN a.name ELSE AnonId

\* the registry after client.containers.run(...) returned r: a detached
\* container is running, a foreground one has already exited
AfterRun(a, r) ==
    IF r = "ok"
    THEN [containers EXCEPT ![NewId(a)] = IF a.detach THEN "running" ELSE "exited"]
    ELSE containers

\* lines 62-72: client.containers.run(...); a name still in use is a conflict
StartContainer ==
    /\ op = "run_container" /\ pc = "run"
    /\ \E r \in IF HasName(args) /\ containers[args.name] # "absent"
                THEN {"APIError"} ELSE {"ok", "APIError"} :
        /\ calls' = Append(calls, Call("containers.run", NewId(args), r, NoArg))
        /\ containers' = AfterRun(args, r)
        /\ auto_rm' = IF r # "ok" THEN auto_rm
                      ELSE IF args.auto_remove THEN auto_rm \cup {NewId(args)}
                      ELSE auto_rm \ {NewId(args)}
        /\ IF r = "ok"
           THEN /\ Goto("after_run")
                /\ container' = NewId(args)
                /\ UNCHANGED <<now, start_time, found, line, exc>>
           ELSE Raise(r)
    /\ UNCHANGED <<client, images, call, notDocker, wait_exit>>

\* lines 74-80 and 99: enter the log-wait phase, or return the container
AfterStart ==
    /\ op = "run_container" /\ pc = "after_run"
    /\ IF WantsWait(args)
       THEN /\ start_time' = now
            /\ calls' = Append(calls, Call("logs", container, "ok", NoArg))
            /\ Goto("read")
            /\ UNCHANGED <<now, found, container, line, exc>>
       ELSE /\ Return(container)
            /\ calls' = calls
    /\ UNCHANGED <<runtime, call, notDocker, wait_exit>>

\* lines 80-87 and 99: the iterator yields a line; decode, strip, match.
\* On a match found is set, the loop is left and line 99 returns: found is
\* never read again, and goes with the frame.
ReadLine ==
    /\ op = "run_container" /\ pc = "read"
    /\ \E l \in Lines :
        IF ~DecodeOk(l)
        THEN /\ exc' = "UnicodeDecodeError"
             /\ wait_exit' = "error"
             /\ line' = l
             /\ Goto("except")
             /\ UNCHANGED <<now, start_time, found, container>>
        ELSE IF Matches(args.wait_for_log, LineStr(l))
        THEN /\ wait_exit' = "match"
             /\ Return(container)
        ELSE /\ line' = l
             /\ Goto("timecheck")
             /\ UNCHANGED <<now, start_time, found, container, exc, wait_exit>>
    /\ UNCHANGED <<runtime, call, notDocker, calls>>

\* lines 80 and 99: the stream of a container that is no longer running ends;
\* the for loop is left normally and the container is returned
StreamEnds ==
    /\ op = "run_container" /\ pc = "read"
    /\ containers[container] # "running"
    /\ wait_exit' = "stream_end"
    /\ Return(container)
    /\ UNCHANGED <<runtime, call, notDocker, calls>>

\* line 80: the iterator raises (the connection to the daemon broke)
StreamFails ==
    /\ op = "run_container" /\ pc = "read"
    /\ exc' = "StreamError"
    /\ wait_exit' = "error"
    /\ Goto("except")
    /\ UNCHANGED <<runtime, call, notDocker, calls, now, start_time, found,
                   container, line>>

\* lines 90-92: the calls made when the deadline has passed
TimeoutCalls(c, r) == <<Call("stop", c, r, NoArg)>>

\* lines 89-92: the deadline check made after a line that did not match
TimeCheck ==
    /\ op = "run_container" /\ pc = "timecheck"
    /\ IF TimedOut(now, start_time, args.wait_timeout)
       THEN \E r \in ContainerCallRets(container) :
            /\ calls' = calls \o TimeoutCalls(container, r)
            /\ containers' = AfterStop(container, r)
            /\ exc' = IF r = "ok" THEN "TimeoutError" ELSE r
            /\ wait_exit' = "timeout"
            /\ Goto("except")
       ELSE /\ Goto("read")
            /\ UNCHANGED <<calls, containers, exc, wait_exit>>
    /\ line' = NoLine
    /\ UNCHANGED <<client, images, auto_rm, call, notDocker, now, start_time, found,
                   container>>

\* a handler that also removes the container it stopped
ExceptCalls_Remove(c, r) ==
    <<Call("stop", c, r, NoArg), Call("remove_force", c, r, NoArg)>>

\* lines 94-96: the calls made by the handler when found is false
ExceptCalls(c, r) == <<Call("stop", c, r, NoArg)>>

\* lines 93-97: except Exception: if not found: container.stop(); raise
ExceptHandler ==
    /\ op = "run_container" /\ pc = "except"
    /\ IF ~found
       THEN \E r \in ContainerCallRets(container) :
            /\ calls' = calls \o ExceptCalls(container, r)
            /\ containers' = AfterStop(container, r)
            /\ Raise(IF r = "ok" THEN exc ELSE r)
       ELSE /\ Return(container)
            /\ UNCHANGED <<calls, containers>>
    /\ UNCHANGED <<client, images, auto_rm, call, notDocker, wait_exit>>

StopArgs == [name_or_id : Ids, timeout : 0..MaxTimeout]

\* line 101: stop_container is called
StopContainer == \E a \in StopArgs : Enter("stop_container", a)

\* a lookup whose NotFound is not caught
StopLookupNext_Raise(r) == IF r = "ok" THEN "sc_stop" ELSE "raised"

\* lines 103-108: what follows the lookup; NotFound is logged and swallowed
StopLookupNext(r) == CASE r = "ok" -> "sc_stop"
                       [] r = "NotFound" -> "returned"
                       [] OTHER -> "raised"

\* lines 103-104, 107-108: the lookup
StopLookup ==
    /\ op = "stop_container" /\ pc = "sc_get"
    /\ \E r \in ContainerCallRets(args.name_or_id) :
        /\ calls' = Append(calls, Call("containers.get", args.name_or_id, r, NoArg))
        /\ CASE StopLookupNext(r) = "raised" -> Raise(r)
             [] StopLookupNext(r) = "returned" -> Return(None)
             [] OTHER -> Goto(StopLookupNext(r)) /\ UNCHANGED locals
    /\ UNCHANGED <<runtime, call, notDocker, wait_exit>>

\* line 105: the calls made on the container that was found
StopFoundCalls(c, r, t) == <<Call("stop", c, r, t)>>

\* lines 105-108: container.stop(timeout=timeout)
StopFound ==
    /\ op = "stop_container" /\ pc = "sc_stop"
    /\ \E r \in ContainerCallRets(args.name_or_id) :
        /\ calls' = calls \o StopFoundCalls(args.name_or_id, r, args.timeout)
        /\ containers' = AfterStop(args.name_or_id, r)
        /\ IF r = "APIError" THEN Raise(r) ELSE Return(None)
    /\ UNCHANGED <<client, images, auto_rm, call, notDocker, wait_exit>>

(***************************************************************************)
(* The environment: time passes, containers exit and are auto-removed.     *)
(***************************************************************************)
\* time passes while the runtime starts the container and while the caller
\* is in the log-wait phase
Tick ==
    /\ op = "run_container"
    /\ \/ pc = "run" /\ now < MaxStart
       \/ pc \in {"read", "timecheck"} /\ now - start_time <= args.wait_timeout
    /\ now' = now + 1
    /\ UNCHANGED <<runtime, call, notDocker, pc, calls, start_time, found, container,
                   line, exc, wait_exit, result, error>>

\* the main process of a running container exits
ContainerExits ==
    \E c \in Ids :
        /\ containers[c] = "running"
        /\ containers' = [containers EXCEPT ![c] = "exited"]
        /\ UNCHANGED <<client, images, auto_rm, call, notDocker, pc, calls, locals,
                       wait_exit, result, error>>

\* the runtime deletes an exited container that was started with remove=True
AutoRemoved ==
    \E c \in auto_rm :
        /\ containers[c] = "exited"
        /\ containers' = [containers EXCEPT ![c] = "absent"]
        /\ auto_rm' = auto_rm \ {c}
        /\ UNCHANGED <<client, images, call, notDocker, pc, calls, locals, wait_exit,
                       result, error>>

\* the steps the calling thread takes by itself
ProgramStep ==
    \/ CheckClient \/ ImagesGet \/ ImagesPull \/ Cleanup \/ RemoveExisting
    \/ StartContainer \/ AfterStart \/ TimeCheck \/ ExceptHandler
    \/ StopLookup \/ StopFound

(***************************************************************************)
(* core.py: run.  A command is identified with what its child does: the    *)
(* exit code and the bytes it writes.  How long the child takes may differ *)
(* from one execution to the next.                                         *)
(***************************************************************************)
ReturnCodes == {0, 1, -9}
Outputs == {<<>>, <<"R">>, <<"R", WS>>}
Commands == [returncode : ReturnCodes, out : Outputs, err : Outputs]
NoTimeout == -1                 \* timeout=None
CoreArgs ==
    [cmd : Commands, check : BOOLEAN, timeout : {NoTimeout} \cup (0..MaxTimeout),
     capture_output : BOOLEAN]

NoOutcome == [kind |-> None]
NoError == [type |-> None]
NoProc == [returncode |-> 0, stdout |-> <<>>, stderr |-> <<>>]
NoCommand == [returncode |-> 0, out |-> <<>>, err |-> <<>>]
NoResult == [stdout |-> <<>>, stderr |-> <<>>, exit_code |-> 0,
             command |-> NoCommand, duration |-> 0]
NoRunArgs == [cmd |-> NoCommand, check |-> FALSE, timeout |-> NoTimeout,
              capture_output |-> TRUE]

\* the state of the executor when no call has been made
CoreIdle ==
    /\ run_pc = "idle"
    /\ run_args = NoRunArgs
    /\ proc = NoProc
    /\ duration = 0
    /\ run_result = NoResult
    /\ run_error = NoError
    /\ seen = [c \in BOOLEAN |-> NoOutcome]
    /\ child = "none"

\* what the history keeps apart: the call without its check flag
SameCommand(a, b) ==
    /\ a.cmd = b.cmd
    /\ a.timeout = b.timeout
    /\ a.capture_output = b.capture_output

\* lines 34-78: run is called; the child is about to be spawned
Run ==
    /\ run_pc \in {"idle", "returned", "raised"}
    /\ \E a \in CoreArgs :
        /\ run_args' = a
        /\ seen' = IF run_pc # "idle" /\ SameCommand(a, run_args)
                   THEN seen ELSE [c \in BOOLEAN |-> NoOutcome]
    /\ run_pc' = "spawned"
    /\ proc' = NoProc
    /\ duration' = 0
    /\ run_result' = NoResult
    /\ run_error' = NoError
    /\ child' = "none"
    /\ UNCHANGED notCore

\* the streams of the completed child: None when they were not captured
Completed(a) ==
    [returncode |-> a.cmd.returncode,
     stdout |-> IF a.capture_output THEN a.cmd.out ELSE <<>>,
     stderr |-> IF a.capture_output THEN a.cmd.err ELSE <<>>]

\* lines 80-90: the child exits before the timeout; subprocess.run returns
ChildExits ==
    /\ run_pc = "spawned"
    /\ \E d \in 0..MaxDur :
        /\ run_args.timeout # NoTimeout => d <= run_args.timeout
        /\ duration' = d
    /\ proc' = Completed(run_args)
    /\ run_pc' = "exited"
    /\ child' = "exited"
    /\ UNCHANGED <<run_args, run_result, run_error, seen, notCore>>

\* lines 80-89: the timeout expires first; subprocess.run kills the child,
\* waits for it and raises TimeoutExpired into the try block
ChildTimesOut ==
    /\ run_pc = "spawned"
    /\ run_args.timeout # NoTimeout
    /\ run_pc' = "except"
    /\ child' = "killed"
    /\ UNCHANGED <<run_args, proc, duration, run_result, run_error, seen,
                   notCore>>

TimeoutExpired == [type |-> "TimeoutExpired"]

\* a handler that turns the timeout of a checked call into a ShellError
Reraise_Checked(a, e) ==
    IF a.check THEN [type |-> "ShellError", result |-> NoResult] ELSE e

\* lines 113-116: the exception caught is logged and raised again
Reraise(a, e) == e

\* lines 113-116: except subprocess.TimeoutExpired
TimeoutHandler ==
    /\ run_pc = "except"
    /\ run_pc' = "raised"
    /\ run_error' = Reraise(run_args, TimeoutExpired)
    /\ seen' = [seen EXCEPT ![run_args.check] =
                    [kind |-> "raised", error |-> run_error']]
    /\ UNCHANGED <<run_args, proc, duration, run_result, child, notCore>>

\* lines 67 and 80: the command cannot be run (shlex.split rejects the
\* string, or the executable cannot be started); the error is not caught
SpawnFails ==
    /\ run_pc = "spawned"
    /\ run_pc' = "raised"
    /\ run_error' = [type |-> "OSError"]
    /\ seen' = [seen EXCEPT ![run_args.check] =
                    [kind |-> "raised", error |-> run_error']]
    /\ UNCHANGED <<run_args, proc, duration, run_result, child, notCore>>

\* lines 92-93: proc.stdout.strip() if proc.stdout else ""
Stripped(out) == IF out # <<>> THEN Strip(out) ELSE <<>>

\* lines 100-106: CommandResult(...)
CommandResult(a, p, d) ==
    [stdout |-> Stripped(p.stdout),
     stderr |-> Stripped(p.stderr),
     exit_code |-> p.returncode,
     command |-> a.cmd,
     duration |-> d]

\* an ok() that takes every exit code but a signal's for success
Ok_NonNegative(r) == r.exit_code >= 0

\* CommandResult.ok, lines 25-26
Ok(r) == r.exit_code = 0

\* line 108: check and proc.returncode != 0
MustRaise(check, returncode) == check /\ returncode # 0

\* an error that carries the child's raw streams
ShellError_Raw(r, p) ==
    [type |-> "ShellError",
     result |-> [r EXCEPT !.stdout = p.stdout, !.stderr = p.stderr]]

\* lines 28-32 and 109: ShellError(result)
ShellError(r, p) == [type |-> "ShellError", result |-> r]

\* isinstance(e, ShellError)
IsShellError(e) == e.type = "ShellError"

\* lines 92-111: build the result; raise ShellError or return it
Finish ==
    /\ run_pc = "exited"
    /\ LET r == CommandResult(run_args, proc, duration) IN
        IF MustRaise(run_args.check, proc.returncode)
        THEN /\ run_pc' = "raised"
             /\ run_error' = ShellError(r, proc)
             /\ run_result' = run_result
             /\ seen' = [seen EXCEPT ![run_args.check] =
                            [kind |-> "raised", error |-> run_error']]
        ELSE /\ run_pc' = "returned"
             /\ run_result' = r
             /\ run_error' = run_error
             /\ seen' = [seen EXCEPT ![run_args.check] =
                            [kind |-> "returned", result |-> r]]
    /\ UNCHANGED <<run_args, proc, duration, child, notCore>>

(***************************************************************************)
(* core.py: Shell, and run seen as one step.  A path is the sequence of    *)
(* its components, an absolute path starting with the component "/".  An   *)
(* environment is a map from Keys to a value or Unset.  The file system is *)
(* fixed: Dirs are the directories that exist.                             *)
(***************************************************************************)
Sessions == {"s1", "s2"}
Keys == {"K", "P"}
SetKeys == {"K"}                \* the keys the program sets or overrides
Vals == {"a", "b"}
Unset == "unset"
Defaults == {None, "z"}         \* getenv's default argument
EnvMaps == [Keys -> Vals \cup {Unset}]
EmptyMap == [k \in Keys |-> Unset]
\* the environment of the process that uses sessions: K is set, P is not
Ambient == [k \in Keys |-> IF k = "K" THEN "a" ELSE Unset]
CallerMaps == {EmptyMap, [k \in Keys |-> IF k = "K" THEN "b" ELSE Unset]}

Root == <<"/">>
Dirs == {Root, <<"/", "a">>, <<"/", "a", "b">>}
\* cwd arguments of Shell(...): None (or ""), and a relative path
CwdArgs == {<<>>, <<"a">>}
\* path arguments of cd
PathArgs == {<<"a">>, <<"b">>, <<"..">>, <<"/", "a">>}

IsAbs(p) == p # <<>> /\ p[1] = "/"

\* os.path.join(a, b)
Join(a, b) == IF IsAbs(b) THEN b ELSE a \o b

\* os.path.normpath: "." is dropped, ".." takes back the component before
\* it, except at the root and after a leading ".."
RECURSIVE Collapse(_, _)
Collapse(stack, rest) ==
    IF rest = <<>> THEN stack
    ELSE LET c == Head(rest) IN
         IF c = "." THEN Collapse(stack, Tail(rest))
         ELSE IF c # ".." THEN Collapse(Append(stack, c), Tail(rest))
         ELSE IF stack = Root THEN Collapse(stack, Tail(rest))
         ELSE IF stack # <<>> /\ stack[Len(stack)] # ".."
              THEN Collapse(SubSeq(stack, 1, Len(stack) - 1), Tail(rest))
         ELSE Collapse(Append(stack, c), Tail(rest))

NormPath(p) == IF IsAbs(p) THEN Collapse(Root, Tail(p)) ELSE Collapse(<<>>, p)

\* os.path.abspath(p) in a process whose working directory is wd
Abspath(wd, p) == NormPath(Join(wd, p))

\* os.path.isdir(p) in a process whose working directory is wd
IsDir(wd, p) == Abspath(wd, p) \in Dirs

\* bool(env): None and the empty dict are both false
Truthy(m) == \E k \in Keys : m[k] # Unset

\* an update in which the values already present are kept
Update_KeepOld(base, m) ==
    [k \in Keys |-> IF base[k] # Unset THEN base[k] ELSE m[k]]

\* dict.update
Update(base, m) == [k \in Keys |-> IF m[k] # Unset THEN m[k] ELSE base[k]]

\* lines 75-77: run_env = os.environ.copy(); if env: run_env.update(env)
RunEnv(ambient, env) == IF Truthy(env) THEN Update(ambient, env) ELSE ambient

NoLast == [op |-> None, s |-> None, path |-> <<>>, key |-> None,
           value |-> None]
NoRet == [kind |-> None, value |-> None, result |-> NoResult, error |-> NoError]
NoSpawn == [made |-> FALSE, cwd |-> <<>>, env |-> EmptyMap]
Returned(v, r) == [kind |-> "returned", value |-> v, result |-> r, error |-> NoError]
Raised(e) == [kind |-> "raised", value |-> None, result |-> NoResult, error |-> e]
Spawned(cwd, env) == [made |-> TRUE, cwd |-> cwd, env |-> env]

\* the dict a session's env attribute refers to
SessionEnv(s) == IF shell_env[s] = "caller" THEN caller_env ELSE copies[s]

\* no session yet: one fixed process
ShellIdle ==
    /\ environ = EmptyMap
    /\ os_cwd = Root
    /\ caller_env = EmptyMap
    /\ shells = {}
    /\ shell_cwd = [s \in Sessions |-> <<>>]
    /\ shell_env = [s \in Sessions |-> "own"]
    /\ copies = [s \in Sessions |-> EmptyMap]
    /\ last = NoLast
    /\ sh_ret = NoRet
    /\ spawn = NoSpawn
    /\ last_set = [s \in Sessions |-> EmptyMap]

\* no session yet: a process in one of the directories, with a dict
ShellStart ==
    /\ environ = Ambient
    /\ os_cwd \in Dirs \ {Root}
    /\ caller_env \in CallerMaps
    /\ shells = {}
    /\ shell_cwd = [s \in Sessions |-> <<>>]
    /\ shell_env = [s \in Sessions |-> "own"]
    /\ copies = [s \in Sessions |-> EmptyMap]
    /\ last = NoLast
    /\ sh_ret = NoRet
    /\ spawn = NoSpawn
    /\ last_set = [s \in Sessions |-> EmptyMap]

\* line 124: cwd or os.getcwd()
InitCwd(c, wd) == IF c # <<>> THEN c ELSE wd

\* lines 123-125: Shell(cwd, env); env is the caller's dict or None
ShellNew ==
    \E s \in Sessions \ shells, c \in CwdArgs, given \in BOOLEAN :
        /\ shells' = shells \cup {s}
        /\ shell_cwd' = [shell_cwd EXCEPT ![s] = InitCwd(c, os_cwd)]
        /\ IF given /\ Truthy(caller_env)
           THEN /\ shell_env' = [shell_env EXCEPT ![s] = "caller"]
                /\ copies' = copies
           ELSE /\ shell_env' = [shell_env EXCEPT ![s] = "own"]
                /\ copies' = [copies EXCEPT ![s] = environ]
        /\ last' = [NoLast EXCEPT !.op = "Shell", !.s = s, !.path = c,
                                  !.value = IF given THEN "caller_env" ELSE None]
        /\ sh_ret' = Returned(None, NoResult)
        /\ spawn' = NoSpawn
        /\ UNCHANGED <<environ, os_cwd, caller_env, last_set, notShell>>

\* what subprocess.run may do with a command
Outcomes == {"exit", "timeout", "oserror"}
ShellCommands ==
    {c \in Commands : c.out = <<>> /\ c.err = <<>> /\ c.returncode \in {0, 1}}
ShellRunArgs ==
    [cmd : ShellCommands, check : BOOLEAN, timeout : {NoTimeout, MaxTimeout},
     capture_output : {TRUE}]

\* lines 79-116 in one step: what run returns or raises when subprocess.run
\* does o; a child cannot start in a cwd that is no directory
RunOutcome(a, o, cwd_ok) ==
    IF ~cwd_ok \/ o = "oserror" THEN Raised([type |-> "OSError"])
    ELSE IF o = "timeout" THEN Raised(Reraise(a, TimeoutExpired))
    ELSE LET p == Completed(a)
             r == CommandResult(a, p, 0)
         IN  IF MustRaise(a.check, p.returncode)
             THEN Raised(ShellError(r, p))
             ELSE Returned(None, r)

\* the calls tried: a timeout is given when the child is to outlive it, and
\* the command that cannot be started is one command
RunCases ==
    {c \in [a : ShellRunArgs, o : Outcomes] :
        /\ c.o = "timeout" <=> c.a.timeout # NoTimeout
        /\ c.o # "exit" => c.a.cmd.returncode = 1}

\* lines 127-129: Shell.run: run(cmd, cwd=self.cwd, env=self.env, ...)
ShellRun ==
    \E s \in shells, c \in RunCases :
      LET a == c.a
          o == c.o
      IN
        /\ o = "timeout" => a.timeout # NoTimeout
        /\ spawn' = Spawned(shell_cwd[s], RunEnv(environ, SessionEnv(s)))
        /\ sh_ret' = RunOutcome(a, o, IsDir(os_cwd, shell_cwd[s]))
        /\ last' = [NoLast EXCEPT !.op = "Shell.run", !.s = s]
        /\ UNCHANGED <<environ, os_cwd, caller_env, shells, shell_cwd,
                       shell_env, copies, last_set, notShell>>

\* lines 34-116: run called by the program itself, with env= the caller's
\* dict or None, and no cwd: the child inherits the process's
CoreRun ==
    \E given \in BOOLEAN, c \in RunCases :
      LET a == c.a
          o == c.o
      IN
        /\ o = "timeout" => a.timeout # NoTimeout
        /\ spawn' = Spawned(<<>>, RunEnv(environ, IF given THEN caller_env
                                                           ELSE EmptyMap))
        /\ sh_ret' = RunOutcome(a, o, TRUE)
        /\ last' = [NoLast EXCEPT !.op = "run",
                                  !.value = IF given THEN "caller_env" ELSE None]
        /\ UNCHANGED <<environ, os_cwd, caller_env, shells, shell_cwd,
                       shell_env, copies, last_set, notShell>>

\* line 133: new_path
NewPath(s, path) == Abspath(os_cwd, Join(shell_cwd[s], path))

\* a cd that assigns the new directory before it is tested
CdCwd_Eager(old, new, isdir) == new

\* lines 135-138: self.cwd is assigned only after the isdir test
CdCwd(old, new, isdir) == IF isdir THEN new ELSE old

\* lines 131-138: Shell.cd
ShellCd ==
    \E s \in shells, path \in PathArgs :
        LET new_path == NewPath(s, path)
            isdir == IsDir(os_cwd, new_path)
        IN  /\ shell_cwd' = [shell_cwd EXCEPT ![s] = CdCwd(@, new_path, isdir)]
            /\ sh_ret' = IF isdir THEN Returned(None, NoResult)
                         ELSE Raised([type |-> "FileNotFoundError"])
            /\ last' = [NoLast EXCEPT !.op = "cd", !.s = s, !.path = path]
            /\ spawn' = NoSpawn
            /\ UNCHANGED <<environ, os_cwd, caller_env, shells, shell_env,
                           copies, last_set, notShell>>

\* lines 140-141: Shell.setenv: self.env[key] = value
ShellSetenv ==
    \E s \in shells, k \in SetKeys, v \in Vals :
        /\ IF shell_env[s] = "caller"
           THEN /\ caller_env' = [caller_env EXCEPT ![k] = v]
                /\ copies' = copies
           ELSE /\ copies' = [copies EXCEPT ![s][k] = v]
                /\ caller_env' = caller_env
        /\ last_set' = [last_set EXCEPT ![s][k] = v]
        /\ last' = [NoLast EXCEPT !.op = "setenv", !.s = s, !.key = k,
                                  !.value = v]
        /\ sh_ret' = Returned(None, NoResult)
        /\ spawn' = NoSpawn
        /\ UNCHANGED <<environ, os_cwd, shells, shell_cwd, shell_env, notShell>>

\* a lookup that forgets the default
EnvGet_NoDefault(m, k, dflt) == IF m[k] # Unset THEN m[k] ELSE None

\* dict.get(key, default)
EnvGet(m, k, dflt) == IF m[k] # Unset THEN m[k] ELSE dflt

\* lines 143-144: Shell.getenv
ShellGetenv ==
    \E s \in shells, k \in Keys, dflt \in Defaults :
        /\ sh_ret' = Returned(EnvGet(SessionEnv(s), k, dflt), NoResult)
        /\ last' = [NoLast EXCEPT !.op = "getenv", !.s = s, !.key = k,
                                  !.value = dflt]
        /\ spawn' = NoSpawn
        /\ UNCHANGED <<environ, os_cwd, caller_env, shells, shell_cwd,
                       shell_env, copies, last_set, notShell>>

\* the calling program stores into the dict it owns
CallerPut ==
    \E k \in SetKeys, v \in Vals :
        /\ caller_env' = [caller_env EXCEPT ![k] = v]
        /\ last' = [NoLast EXCEPT !.op = "caller_put", !.key = k, !.value = v]
        /\ sh_ret' = NoRet
        /\ spawn' = NoSpawn
        /\ UNCHANGED <<environ, os_cwd, shells, shell_cwd, shell_env, copies,
                       last_set, notShell>>

ShellNext ==
    \/ ShellNew \/ ShellRun \/ ShellCd \/ ShellSetenv \/ ShellGetenv
    \/ CallerPut

\* run used without a session: any environment, any dict
EnvStart ==
    /\ environ \in EnvMaps
    /\ os_cwd = Root
    /\ caller_env \in EnvMaps
    /\ shells = {}
    /\ shell_cwd = [s \in Sessions |-> <<>>]
    /\ shell_env = [s \in Sessions |-> "own"]
    /\ copies = [s \in Sessions |-> EmptyMap]
    /\ last = NoLast
    /\ sh_ret = NoRet
    /\ spawn = NoSpawn
    /\ last_set = [s \in Sessions |-> EmptyMap]

EnvNext == CoreRun \/ CallerPut

(***************************************************************************)
(* authentik/oauth.py: AuthentikOAuthManager.create_providers_bulk.        *)
(* Authentik is an external collaborator: it is modelled by the set of     *)
(* client ids it holds a provider for.  create_provider fails when the     *)
(* client id is taken (the script exits 1 and run raises ShellError) and   *)
(* may fail for any other reason (the container cannot be reached, the     *)
(* script prints no JSON).                                                 *)
(***************************************************************************)
ClientIds == {"c1", "c2"}
AppNames == {"A", "B"}
ProviderConfigs == [client_id : ClientIds, app_name : AppNames]
ConfigLists == UNION {[1..n -> ProviderConfigs] : n \in 0..MaxConfigs}
Failures == {"ShellError", "ValueError"}

BulkIdle ==
    /\ providers = {}
    /\ bulk_pc = "idle"
    /\ configs = <<>>
    /\ bulk_i = 0
    /\ results = <<>>
    /\ attempts = <<>>

BulkStart ==
    /\ providers \in SUBSET ClientIds
    /\ bulk_pc = "idle"
    /\ configs = <<>>
    /\ bulk_i = 0
    /\ results = <<>>
    /\ attempts = <<>>

\* lines 180-193: create_providers_bulk(cs) is entered; results = []
BulkCall(cs) ==
    /\ bulk_pc \in {"idle", "returned"}
    /\ configs' = cs
    /\ bulk_pc' = "loop"
    /\ bulk_i' = 1
    /\ results' = <<>>
    /\ attempts' = <<>>
    /\ providers' = providers

\* lines 180-193: the call, made by a program that uses the library
CreateProvidersBulk ==
    /\ \E cs \in ConfigLists : BulkCall(cs)
    /\ UNCHANGED notBulk

\* 'error' in r
HasError(r) == "error" \in DOMAIN r

\* lines 146-156: the dict the script prints on success
Created(config) ==
    [app_name |-> config.app_name, client_id |-> config.client_id,
     client_secret |-> "secret"]

\* an error entry that names the first config of the list
ErrorEntry_First(config, e) ==
    [error |-> e, client_id |-> configs[1].client_id,
     app_name |-> configs[1].app_name]

\* lines 199-203: the entry appended for a config that failed
ErrorEntry(config, e) ==
    [error |-> e, client_id |-> config.client_id, app_name |-> config.app_name]

\* lines 159-178 with lines 106-112: what create_provider may do for a
\* config: "ok", or the exception it raises
CreateOutcomes(config) ==
    IF config.client_id \in providers THEN {"ShellError"}
    ELSE {"ok"} \cup Failures

\* lines 193-203: one turn of the loop
BulkIteration ==
    /\ bulk_pc = "loop"
    /\ bulk_i <= Len(configs)
    /\ LET config == configs[bulk_i] IN
        \E o \in CreateOutcomes(config) :
            /\ attempts' = Append(attempts, [client_id |-> config.client_id,
                                             outcome |-> o])
            /\ IF o = "ok"
               THEN /\ providers' = providers \cup {config.client_id}
                    /\ results' = Append(results, Created(config))
               ELSE /\ providers' = providers
                    /\ results' = Append(results, ErrorEntry(config, o))
    /\ bulk_i' = bulk_i + 1
    /\ UNCHANGED <<bulk_pc, configs, notBulk>>

\* lines 205-206: the list is exhausted; return results
BulkReturn ==
    /\ bulk_pc = "loop"
    /\ bulk_i > Len(configs)
    /\ bulk_pc' = "returned"
    /\ UNCHANGED <<providers, configs, bulk_i, results, attempts, notBulk>>

BulkNext == CreateProvidersBulk \/ BulkIteration \/ BulkReturn

(***************************************************************************)
(* cli/commands: `run exec` (run_cmd.py) and `authentik oauth-bulk-create` *)
(* (authentik_cmd.py).  One process runs one command; what it prints is    *)
(* kept as a list of markers, and its exit status is what the parent       *)
(* process sees.                                                           *)
(***************************************************************************)
NoExit == [exited |-> FALSE, status |-> 0]
Exited(code) == [exited |-> TRUE, status |-> code % 256]

CliIdle ==
    /\ cli_cmd = None
    /\ cli_pc = "idle"
    /\ cli_wrapped = NoRet
    /\ cli_out = <<>>
    /\ cli_exit = NoExit

\* the run calls `run exec` makes: no timeout, output captured by run
ExecArgs ==
    {a \in CoreArgs : /\ a.timeout = NoTimeout /\ a.capture_output
                      /\ a.cmd.out = <<>> /\ a.cmd.err = <<>>}

\* run_cmd.py lines 22-37: what `run exec` prints after the call, and how
\* the process ends; an exception that is not a ShellError is not caught
ExecEnd(ret) ==
    IF ret.kind = "raised"
    THEN IF IsShellError(ret.error)
         THEN [out |-> <<"Error running command">>, exit |-> Exited(1)]
         ELSE [out |-> <<"Traceback">>, exit |-> Exited(1)]
    ELSE IF Ok(ret.result)
         THEN [out |-> <<"Success">>, exit |-> Exited(0)]
         ELSE [out |-> <<"Failed">>, exit |-> Exited(ret.result.exit_code)]

\* run_cmd.py lines 8-37: adsys run exec COMMAND [--check/--no-check]
RunExec ==
    /\ cli_pc = "idle"
    /\ \E a \in ExecArgs, o \in Outcomes \ {"timeout"} :
        LET ret == RunOutcome(a, o, TRUE)
            end == ExecEnd(ret)
        IN  /\ cli_wrapped' = ret
            /\ cli_out' = <<"Running">> \o end.out
            /\ cli_exit' = end.exit
    /\ cli_cmd' = "exec"
    /\ cli_pc' = "done"
    /\ UNCHANGED <<bvars, notCli>>

\* authentik_cmd.py lines 226-231: the config file is loaded and
\* create_providers_bulk is called; a file that cannot be loaded ends the
\* command in the handler of lines 277-279
OauthBulkCreate ==
    /\ cli_pc = "idle"
    /\ cli_cmd' = "oauth-bulk-create"
    /\ cli_wrapped' = NoRet
    /\ \/ /\ cli_pc' = "done"
          /\ cli_out' = <<"Failed:">>
          /\ cli_exit' = Exited(1)
          /\ UNCHANGED bvars
       \/ /\ \E cs \in ConfigLists : BulkCall(cs)
          /\ cli_pc' = "bulk"
          /\ cli_out' = <<"Loaded">>
          /\ cli_exit' = NoExit
    /\ UNCHANGED notCli

\* authentik_cmd.py line 234
SuccessCount(rs) == Cardinality({j \in 1..Len(rs) : ~HasError(rs[j])})

\* authentik_cmd.py lines 234-240: the summary
Summary(rs) ==
    IF Len(rs) - SuccessCount(rs) > 0 THEN <<"Created:", "Failed:">>
    ELSE <<"Created:">>

\* authentik_cmd.py lines 233-279: the results are shown and saved; the
\* command ends normally unless saving raises
OauthBulkReport ==
    /\ cli_pc = "bulk" /\ bulk_pc = "returned"
    /\ cli_pc' = "done"
    /\ \/ /\ cli_out' = cli_out \o Summary(results) \o <<"saved">>
          /\ cli_exit' = Exited(0)
       \/ /\ cli_out' = cli_out \o Summary(results) \o <<"Failed:">>
          /\ cli_exit' = Exited(1)
    /\ UNCHANGED <<cli_cmd, cli_wrapped, bvars, notCli>>

CliNext ==
    \/ RunExec \/ OauthBulkCreate \/ BulkIteration \/ BulkReturn
    \/ OauthBulkReport

(***************************************************************************)
(* iac/terraform.py: external_data_handler, the program of a Terraform     *)
(* `external` data source.  Standard input is a text over a small          *)
(* alphabet; json.load and json.dump are modelled on the JSON values that  *)
(* alphabet can spell (a number of ones, an empty object), and the         *)
(* supplied function may return a value json cannot encode.                *)
(***************************************************************************)
MaxText == 3
JsonChars == {"{", "}", "1", " "}
Texts == UNION {[1..n -> JsonChars] : n \in 0..MaxText}

JsonInt(n) == [kind |-> "int", digits |-> n]
JsonDict == [kind |-> "dict", digits |-> 0]
\* a Python object json has no encoding for, alone or inside a dict
PyObject == [kind |-> "object", digits |-> 0]
DictOfObject == [kind |-> "dict_of_object", digits |-> 0]
NoValue == [kind |-> "None", digits |-> 0]

\* the white space json skips around a value
RECURSIVE SkipLeft(_)
SkipLeft(t) == IF t # <<>> /\ Head(t) = " " THEN SkipLeft(Tail(t)) ELSE t

RECURSIVE SkipRight(_)
SkipRight(t) ==
    IF t # <<>> /\ t[Len(t)] = " " THEN SkipRight(SubSeq(t, 1, Len(t) - 1))
    ELSE t

AllAre(t, c) == \A i \in 1..Len(t) : t[i] = c

NoExc == [type |-> "None", msg |-> ""]
PyError(t, m) == [type |-> t, msg |-> m]

\* line 72, json.load: the whole input is one JSON value with white space
\* around it, or JSONDecodeError is raised
JsonLoad(t) ==
    LET w == SkipRight(SkipLeft(t))
    IN  IF w # <<>> /\ AllAre(w, "1")
        THEN [value |-> JsonInt(Len(w)), exc |-> NoExc]
        ELSE IF /\ Len(w) >= 2 /\ w[1] = "{" /\ w[Len(w)] = "}"
                /\ AllAre(SubSeq(w, 2, Len(w) - 1), " ")
        THEN [value |-> JsonDict, exc |-> NoExc]
        ELSE [value |-> NoValue,
              exc |-> PyError("JSONDecodeError", "Expecting value")]

\* line 74, json.dump: the chunks written to the stream, and TypeError
\* once a value that has no encoding is met
JsonDump(v) ==
    CASE v.kind = "int" ->
            [text |-> [i \in 1..v.digits |-> "1"], exc |-> NoExc]
      [] v.kind = "dict" -> [text |-> <<"{", "}">>, exc |-> NoExc]
      [] v.kind = "dict_of_object" ->
            [text |-> <<"{">>,
             exc |-> PyError("TypeError", "not JSON serializable")]
      [] OTHER ->
            [text |-> <<>>,
             exc |-> PyError("TypeError", "not JSON serializable")]

\* what the supplied function does with the query
HandlerReturns == {JsonInt(1), JsonDict, PyObject, DictOfObject}
HandlerRaises == {PyError("ValueError", "no such key"), PyError("KeyError", "")}

\* line 77: str(e), not the name of e's class
Str_Class(e) == e.type
Str(e) == e.msg

TfIdle ==
    /\ tf_pc = "idle"
    /\ tf_stdin = <<>>
    /\ tf_calls = <<>>
    /\ tf_result = NoValue
    /\ tf_exc = NoExc
    /\ tf_stdout = <<>>
    /\ tf_stderr = ""
    /\ tf_exit = NoExit

\* line 66: a process is started with a text on its standard input
ExternalDataHandler ==
    /\ tf_pc = "idle"
    /\ tf_stdin' \in Texts
    /\ tf_pc' = "load"
    /\ UNCHANGED <<tf_calls, tf_result, tf_exc, tf_stdout, tf_stderr, tf_exit,
                   notTf>>

\* line 72: query = json.load(sys.stdin)
TfLoad ==
    /\ tf_pc = "load"
    /\ LET r == JsonLoad(tf_stdin)
       IN  IF r.exc = NoExc
           THEN /\ tf_pc' = "call"
                /\ tf_exc' = tf_exc
           ELSE /\ tf_pc' = "except"
                /\ tf_exc' = r.exc
    /\ UNCHANGED <<tf_stdin, tf_calls, tf_result, tf_stdout, tf_stderr,
                   tf_exit, notTf>>

\* line 73: result = handler_func(query)
TfCall ==
    /\ tf_pc = "call"
    /\ tf_calls' = Append(tf_calls, JsonLoad(tf_stdin).value)
    /\ \/ /\ tf_result' \in HandlerReturns
          /\ tf_pc' = "dump"
          /\ tf_exc' = tf_exc
       \/ /\ tf_exc' \in HandlerRaises
          /\ tf_pc' = "except"
          /\ tf_result' = tf_result
    /\ UNCHANGED <<tf_stdin, tf_stdout, tf_stderr, tf_exit, notTf>>

\* line 74: json.dump(result, sys.stdout)
TfDump ==
    /\ tf_pc = "dump"
    /\ LET r == JsonDump(tf_result)
       IN  /\ tf_stdout' = tf_stdout \o r.text
           /\ IF r.exc = NoExc
              THEN /\ tf_pc' = "returned"
                   /\ tf_exc' = tf_exc
              ELSE /\ tf_pc' = "except"
                   /\ tf_exc' = r.exc
    /\ UNCHANGED <<tf_stdin, tf_calls, tf_result, tf_stderr, tf_exit, notTf>>

\* lines 75-78: except Exception as e
TfExcept ==
    /\ tf_pc = "except"
    /\ tf_stderr' = Str(tf_exc)
    /\ tf_exit' = Exited(1)
    /\ tf_pc' = "exited"
    /\ UNCHANGED <<tf_stdin, tf_calls, tf_result, tf_exc, tf_stdout, notTf>>

TfNext == ExternalDataHandler \/ TfLoad \/ TfCall \/ TfDump \/ TfExcept

(***************************************************************************)
(* io_utils.py: IOCatcher.  The process has a table of file descriptors;   *)
(* sys.stdout and sys.stderr are buffered writers on descriptors 1 and 2.  *)
(* What is written is a token that tells when it was written.              *)
(***************************************************************************)
MaxWrites == 2
Fds == 1..6
Closed == "closed"
Streams == {"stdout", "stderr"}
Files == {"out", "err", "tmp_out", "tmp_err"}

\* sys.stdout.fileno(), sys.stderr.fileno()
Fileno(s) == IF s = "stdout" THEN 1 ELSE 2

\* os.dup, open: the lowest descriptor that is free (0 is standard input)
LowestFree(fds) ==
    CHOOSE d \in Fds : /\ fds[d] = Closed
                       /\ \A e \in Fds : fds[e] = Closed => d <= e

\* os.dup2(src, dst): dst refers to what src refers to
Dup2(fds, src, dst) == [fds EXCEPT ![dst] = fds[src]]

\* os.close(fd)
Close(fds, d) == [fds EXCEPT ![d] = Closed]

\* stream.flush(): the buffered text goes to the file the descriptor names
Flushed(p, s) ==
    [p EXCEPT !.files[p.fds[Fileno(s)]] = @ \o p.buf[s], !.buf[s] = <<>>]

NoFd == 0
NewCatcher ==
    [capture_stdout |-> FALSE, capture_stderr |-> FALSE,
     stdout_fd |-> NoFd, stderr_fd |-> NoFd,
     saved_stdout_fd |-> NoFd, saved_stderr_fd |-> NoFd]

IoIdle ==
    /\ io_pc = "before"
    /\ io_fds = [d \in Fds |-> IF d = 1 THEN "out"
                               ELSE IF d = 2 THEN "err" ELSE Closed]
    /\ io_files = [f \in Files |-> <<>>]
    /\ io_buf = [s \in Streams |-> <<>>]
    /\ io_self = NewCatcher
    /\ io_body = None
    /\ io_failed = [stdout |-> FALSE, stderr |-> FALSE]
    /\ io_exc = None
    /\ io_writes = 0

Proc == [fds |-> io_fds, files |-> io_files, buf |-> io_buf]

\* the program writes to sys.stdout or sys.stderr
Write ==
    /\ io_writes < MaxWrites
    /\ io_pc \in {"before", "body", "after"}
    /\ \E s \in Streams : io_buf' = [io_buf EXCEPT ![s] = Append(@, io_pc)]
    /\ io_writes' = io_writes + 1
    /\ UNCHANGED <<io_pc, io_fds, io_files, io_self, io_body, io_failed,
                   io_exc, notIo>>

\* a buffered writer may flush whenever it is written to
Flush ==
    /\ io_pc \in {"before", "body", "after"}
    /\ \E s \in Streams :
        /\ io_buf[s] # <<>>
        /\ io_files' = Flushed(Proc, s).files
        /\ io_buf' = Flushed(Proc, s).buf
    /\ UNCHANGED <<io_pc, io_fds, io_self, io_body, io_failed, io_exc,
                   io_writes, notIo>>

\* lines 25-31 and 33-39: one stream is redirected to a new temporary file
Redirect(p, s, tmp) ==
    LET saved == LowestFree(p.fds)
        fds1 == [p.fds EXCEPT ![saved] = p.fds[Fileno(s)]]
        temp == LowestFree(fds1)
        fds2 == [fds1 EXCEPT ![temp] = tmp]
        fl == Flushed([p EXCEPT !.fds = fds2], s)
    IN  [proc |-> [fl EXCEPT !.fds = Dup2(fl.fds, temp, Fileno(s))],
         saved |-> saved]

\* lines 13-41: with IOCatcher(capture_stdout, capture_stderr):
IoEnter ==
    /\ io_pc = "before"
    /\ \E cs \in BOOLEAN, ce \in BOOLEAN :
        LET r1 == IF cs THEN Redirect(Proc, "stdout", "tmp_out")
                  ELSE [proc |-> Proc, saved |-> NoFd]
            r2 == IF ce THEN Redirect(r1.proc, "stderr", "tmp_err")
                  ELSE [proc |-> r1.proc, saved |-> NoFd]
        IN  /\ io_fds' = r2.proc.fds
            /\ io_files' = r2.proc.files
            /\ io_buf' = r2.proc.buf
            /\ io_self' =
                 [capture_stdout |-> cs, capture_stderr |-> ce,
                  stdout_fd |-> IF cs THEN Fileno("stdout") ELSE NoFd,
                  stderr_fd |-> IF ce THEN Fileno("stderr") ELSE NoFd,
                  saved_stdout_fd |-> r1.saved, saved_stderr_fd |-> r2.saved]
    /\ io_pc' = "body"
    /\ UNCHANGED <<io_body, io_failed, io_exc, io_writes, notIo>>

\* the body of the with statement ends, normally or with an exception
BodyEnds ==
    /\ io_pc = "body"
    /\ io_body' \in {"normal", "raised"}
    /\ io_pc' = "exit"
    /\ UNCHANGED <<io_fds, io_files, io_buf, io_self, io_failed, io_exc,
                   io_writes, notIo>>

\* how the three statements that restore a stream may end: all done, flush
\* raises, or dup2 raises
RestoreOutcomes == {"ok", "flush_fails", "dup2_fails"}

\* lines 47-49 and 54-56: flush, dup2(saved, fd), close(saved)
Restore_CloseOnly(p, s, saved, fd, o) ==
    IF o = "flush_fails" THEN p
    ELSE IF o = "dup2_fails" THEN Flushed(p, s)
    ELSE LET fl == Flushed(p, s)
         IN  [fl EXCEPT !.fds = Close(fl.fds, saved)]
Restore(p, s, saved, fd, o) ==
    IF o = "flush_fails" THEN p
    ELSE IF o = "dup2_fails" THEN Flushed(p, s)
    ELSE LET fl == Flushed(p, s)
         IN  [fl EXCEPT !.fds = Close(Dup2(fl.fds, saved, fd), saved)]

\* lines 43-58: __exit__; an exception of the try block leaves __exit__
\* after the finally block ran, one of the finally block is swallowed
IoExit ==
    /\ io_pc = "exit"
    /\ \E o1 \in RestoreOutcomes, o2 \in RestoreOutcomes :
        LET do1 == io_self.capture_stdout /\ io_self.saved_stdout_fd # NoFd
            do2 == io_self.capture_stderr /\ io_self.saved_stderr_fd # NoFd
            p1 == IF do1
                  THEN Restore(Proc, "stdout", io_self.saved_stdout_fd,
                               io_self.stdout_fd, o1)
                  ELSE Proc
            p2 == IF do2
                  THEN Restore(p1, "stderr", io_self.saved_stderr_fd,
                               io_self.stderr_fd, o2)
                  ELSE p1
        IN  /\ ~do1 => o1 = "ok"
            /\ ~do2 => o2 = "ok"
            /\ io_fds' = p2.fds
            /\ io_files' = p2.files
            /\ io_buf' = p2.buf
            /\ io_failed' = [stdout |-> o1 # "ok", stderr |-> o2 # "ok"]
            /\ io_exc' = IF o1 # "ok" THEN "OSError"
                         ELSE IF io_body = "raised" THEN "BodyError"
                         ELSE None
    /\ io_pc' = "after"
    /\ UNCHANGED <<io_self, io_body, io_writes, notIo>>

IoNext == Write \/ Flush \/ IoEnter \/ BodyEnds \/ IoExit

(***************************************************************************)
(* packages/apt.py and packages/dnf.py: Apt and Dnf.  The system's package *)
(* database is the set of installed packages; dpkg -s and rpm -q report    *)
(* what it holds, a successful install command adds what it was given and  *)
(* a successful remove command takes it away.                              *)
(***************************************************************************)
MaxPkgs == 2
Pkgs == {"a", "b"}
PkgLists == UNION {[1..n -> Pkgs] : n \in 0..MaxPkgs}

\* packages: Union[str, List[str]]
PkgArgs ==
    {[str |-> p, list |-> <<>>] : p \in Pkgs}
        \cup {[str |-> None, list |-> l] : l \in PkgLists}

\* base.py lines 46-49
EnsureList(packages) ==
    IF packages.str # None THEN <<packages.str>> ELSE packages.list

Managers == [kind : {"apt", "dnf"}, use_sudo : BOOLEAN]

\* lines 23-27
BuildCmd(m, cmd) == IF m.use_sudo THEN <<"sudo">> \o cmd ELSE cmd

\* the program each manager drives
Tool(m) == IF m.kind = "apt" THEN "apt-get" ELSE "dnf"

\* lines 68-71: the query command of is_installed
QueryCmd(m, p) ==
    IF m.kind = "apt" THEN <<"dpkg", "-s", p>> ELSE <<"rpm", "-q", p>>

\* lines 73-84: the command of update
UpdateCmd(m) ==
    BuildCmd(m, <<Tool(m), IF m.kind = "apt" THEN "update" ELSE "check-update">>)

\* line 47
InstallCmd(m, to_install) ==
    BuildCmd(m, <<Tool(m), "install", "-y">> \o to_install)

\* line 61
RemoveCmd(m, pkg_list) == BuildCmd(m, <<Tool(m), "remove", "-y">> \o pkg_list)

\* line 35: [p for p in pkg_list if not self.is_installed(p)]
ToInstall_All(pkg_list, db) == pkg_list
ToInstall(pkg_list, db) == SelectSeq(pkg_list, LAMBDA p : p \notin db)

\* line 35: the queries is_installed runs, one per requested package
Queries(m, pkg_list) == [i \in 1..Len(pkg_list) |-> QueryCmd(m, pkg_list[i])]

SeqSet(q) == {q[i] : i \in 1..Len(q)}

NoPkgArg == [str |-> None, list |-> <<>>]
NoPkgRet == [op |-> None, kind |-> None, value |-> FALSE]
PkgReturned(o, v) == [op |-> o, kind |-> "returned", value |-> v]
PkgRaised(o) == [op |-> o, kind |-> "raised", value |-> FALSE]

PkgIdle ==
    /\ pk_mgr = [kind |-> "apt", use_sudo |-> FALSE]
    /\ pk_db = {}
    /\ pk_before = {}
    /\ pk_args = [packages |-> NoPkgArg, update |-> FALSE]
    /\ pk_cmds = <<>>
    /\ pk_ret = NoPkgRet

\* a manager on a system with some packages installed
PkgStart ==
    /\ pk_mgr \in Managers
    /\ pk_db \in SUBSET Pkgs
    /\ pk_before = {}
    /\ pk_args = [packages |-> NoPkgArg, update |-> FALSE]
    /\ pk_cmds = <<>>
    /\ pk_ret = NoPkgRet

\* apt.py lines 73-81 raise when the command fails; dnf.py lines 73-84
\* return False
UpdateRaises(m, uo) == m.kind = "apt" /\ uo = "fails"

\* lines 29-52: install(packages, update)
Install ==
    \E packages \in PkgArgs, update \in BOOLEAN,
       uo \in {"ok", "fails"}, io \in {"ok", "fails"} :
        LET pkg_list == EnsureList(packages)
            to_install == ToInstall(pkg_list, pk_db)
            asked == IF pkg_list = <<>> THEN <<>>
                     ELSE Queries(pk_mgr, pkg_list)
            upd == IF update THEN <<UpdateCmd(pk_mgr)>> ELSE <<>>
        IN  /\ pk_args' = [packages |-> packages, update |-> update]
            /\ pk_before' = pk_db
            /\ IF to_install = <<>>
               THEN /\ uo = "ok" /\ io = "ok"
                    /\ pk_cmds' = asked
                    /\ pk_ret' = PkgReturned("install", TRUE)
                    /\ pk_db' = pk_db
               ELSE IF update /\ UpdateRaises(pk_mgr, uo)
               THEN /\ io = "ok"
                    /\ pk_cmds' = asked \o upd
                    /\ pk_ret' = PkgRaised("install")
                    /\ pk_db' = pk_db
               ELSE /\ ~update => uo = "ok"
                    /\ pk_cmds' = asked \o upd
                                    \o <<InstallCmd(pk_mgr, to_install)>>
                    /\ IF io = "ok"
                       THEN /\ pk_ret' = PkgReturned("install", TRUE)
                            /\ pk_db' = pk_db \cup SeqSet(to_install)
                       ELSE /\ pk_ret' = PkgRaised("install")
                            /\ pk_db' = pk_db
            /\ UNCHANGED <<pk_mgr, notPkg>>

\* lines 54-66: uninstall(packages)
Uninstall ==
    \E packages \in PkgArgs, ro \in {"ok", "fails"} :
        LET pkg_list == EnsureList(packages)
        IN  /\ pk_args' = [packages |-> packages, update |-> FALSE]
            /\ pk_before' = pk_db
            /\ IF pkg_list = <<>>
               THEN /\ ro = "ok"
                    /\ pk_cmds' = <<>>
                    /\ pk_ret' = PkgReturned("uninstall", TRUE)
                    /\ pk_db' = pk_db
               ELSE /\ pk_cmds' = <<RemoveCmd(pk_mgr, pkg_list)>>
                    /\ IF ro = "ok"
                       THEN /\ pk_ret' = PkgReturned("uninstall", TRUE)
                            /\ pk_db' = pk_db \ SeqSet(pkg_list)
                       ELSE /\ pk_ret' = PkgRaised("uninstall")
                            /\ pk_db' = pk_db
            /\ UNCHANGED <<pk_mgr, notPkg>>

PkgNext == Install \/ Uninstall

(***************************************************************************)
(* keycloak/migrate.py: KeycloakToAuthentikMigrator.  Keycloak holds the   *)
(* groups and users to migrate; Authentik is a server that holds groups    *)
(* and users by name, answers a search with every entry whose name         *)
(* contains the term, gives each entry a key, and may fail any request.    *)
(* Each pass of a loop is one step.                                        *)
(***************************************************************************)
MaxCalls == 2
MaxFails == 2

G1 == <<"g">>
G2 == <<"g", "h">>
U1 == <<"u">>
U2 == <<"u", "v">>
GroupNames == {G1, G2}
Usernames == {U1, U2}

\* keycloak.list_groups()
KcGroupLists == {<<>>, <<[name |-> G1], [name |-> G2]>>, <<[name |-> G2]>>}

\* keycloak.export_users_minimal()
KcUserLists ==
    {<<>>,
     <<[username |-> U1, groups |-> <<G1, G2>>],
       [username |-> U2, groups |-> <<>>]>>,
     <<[username |-> U2, groups |-> <<G1>>]>>}

\* the key Authentik gives the entry of that name
Pk(n) == <<"pk">> \o n

\* line 69
DryRunId(group_name) == <<"dry-run-uuid-">> \o group_name

\* authentik/client.py lines 50-56 and 114-120: the entries a search returns
Search(held, term) ==
    {[name |-> n, pk |-> Pk(n)] : n \in {h \in held : Contains(h, term)}}

\* lines 73 and 151: existing and any(g["name"] == group_name ...)
Exists_Never(existing, n) == FALSE
Exists(existing, n) == existing # {} /\ \E g \in existing : g.name = n

\* lines 75-77 and 153-155: next(g["pk"] for g in existing if ...)
ExistingPk(existing, n) == (CHOOSE g \in existing : g.name = n).pk

\* a dict as the set of its items
EmptyDict == {}
DictKeys(m) == {p[1] : p \in m}
DictValues(m) == {p[2] : p \in m}
DictGet(m, k) == (CHOOSE p \in m : p[1] = k)[2]
DictPut(m, k, v) == {p \in m : p[1] # k} \cup {<<k, v>>}

\* lines 131-135: the ids of the user's groups that the mapping knows
RECURSIVE MapGroups_All(_, _)
MapGroups_All(m, gs) ==
    IF gs = <<>> THEN <<>> ELSE <<Pk(Head(gs))>> \o MapGroups_All(m, Tail(gs))
RECURSIVE MapGroups(_, _)
MapGroups(m, gs) ==
    IF gs = <<>> THEN <<>>
    ELSE IF Head(gs) \in DictKeys(m)
    THEN <<DictGet(m, Head(gs))>> \o MapGroups(m, Tail(gs))
    ELSE MapGroups(m, Tail(gs))

\* lines 44-50
NewReport ==
    [users_migrated |-> 0, users_failed |-> 0, groups_migrated |-> 0,
     groups_failed |-> 0, errors |-> <<>>]

\* lines 91-96 and 198-203: the except block of an item
ItemFailed_Silent(r, type, n) ==
    IF type = "group" THEN [r EXCEPT !.groups_failed = @ + 1]
    ELSE [r EXCEPT !.users_failed = @ + 1]
ItemFailed(r, type, n) ==
    IF type = "group"
    THEN [r EXCEPT !.groups_failed = @ + 1,
                   !.errors = Append(@, [type |-> type, name |-> n])]
    ELSE [r EXCEPT !.users_failed = @ + 1,
                   !.errors = Append(@, [type |-> type, name |-> n])]

\* self.dry_run
IsDryRun_Never(cfg) == FALSE
IsDryRun(cfg) == cfg.dry_run

NoId == <<>>
UserResult(username, status, id) ==
    [username |-> username, status |-> status, authentik_id |-> id]

AkCall(api, n, gs) == [api |-> api, name |-> n, groups |-> gs]

NoPrev == [all_ok |-> FALSE, mapping |-> EmptyDict]

MigFresh ==
    /\ report = NewReport
    /\ mig_op = None
    /\ mig_pc = "idle"
    /\ mig_i = 1
    /\ group_mapping = EmptyDict
    /\ mig_arg = EmptyDict
    /\ user_results = <<>>
    /\ mig_calls = <<>>
    /\ mig_before = NewReport
    /\ mig_prev = NoPrev
    /\ mig_n = 0
    /\ mig_fails = 0

MigIdle ==
    /\ mig_cfg = [dry_run |-> FALSE, default_password |-> None]
    /\ kc_groups = <<>>
    /\ kc_users = <<>>
    /\ ak_groups = {}
    /\ ak_users = {}
    /\ MigFresh

\* lines 24-50: a migrator between a Keycloak realm and an Authentik server
MigStart ==
    /\ mig_cfg \in [dry_run : BOOLEAN, default_password : {None, "pw"}]
    /\ kc_groups \in KcGroupLists
    /\ kc_users \in KcUserLists
    /\ ak_groups \in SUBSET GroupNames
    /\ ak_users \in {{}, {U1}}
    /\ MigFresh

MigServer == <<mig_cfg, kc_groups, kc_users>>

\* a request may fail, as long as the model's budget of failures lasts
MayFail == mig_fails < MaxFails

\* a call of the migrator begins: line 60, keycloak.list_groups()
BeginGroups ==
    /\ mig_pc \in {"idle", "returned", "raised"}
    /\ mig_n < MaxCalls
    /\ mig_n' = mig_n + 1
    /\ mig_before' = report
    /\ mig_calls' = <<>>
    /\ user_results' = <<>>
    /\ mig_arg' = EmptyDict
    /\ group_mapping' = EmptyDict
    /\ mig_i' = 1
    /\ \/ /\ mig_pc' = "groups"
          /\ mig_fails' = mig_fails
       \/ /\ MayFail
          /\ mig_pc' = "raised"
          /\ mig_fails' = mig_fails + 1
    /\ UNCHANGED <<MigServer, ak_groups, ak_users, report, mig_prev, notMig>>

\* lines 52-61: migrate_groups()
MigrateGroups ==
    /\ mig_op' = "migrate_groups"
    /\ BeginGroups

\* lines 213-223: migrate_all()
MigrateAll ==
    /\ mig_op' = "migrate_all"
    /\ BeginGroups

\* lines 63-96: one pass of the loop over the Keycloak groups
GroupIteration ==
    /\ mig_pc = "groups" /\ mig_i <= Len(kc_groups)
    /\ mig_i' = mig_i + 1
    /\ LET group_name == kc_groups[mig_i].name
           existing == Search(ak_groups, group_name)
           looked == Append(mig_calls, AkCall("list_groups", group_name, <<>>))
           made == Append(looked, AkCall("create_group", group_name, <<>>))
           migrated == [report EXCEPT !.groups_migrated = @ + 1]
           failed == ItemFailed(report, "group", group_name)
       IN  IF IsDryRun(mig_cfg)
           THEN /\ group_mapping' =
                      DictPut(group_mapping, group_name, DryRunId(group_name))
                /\ report' = migrated
                /\ UNCHANGED <<mig_calls, ak_groups, mig_fails>>
           ELSE \/ /\ MayFail
                   /\ mig_calls' = looked
                   /\ report' = failed
                   /\ mig_fails' = mig_fails + 1
                   /\ UNCHANGED <<group_mapping, ak_groups>>
                \/ /\ Exists(existing, group_name)
                   /\ mig_calls' = looked
                   /\ group_mapping' =
                         DictPut(group_mapping, group_name,
                                 ExistingPk(existing, group_name))
                   /\ report' = migrated
                   /\ UNCHANGED <<ak_groups, mig_fails>>
                \/ /\ ~Exists(existing, group_name)
                   /\ mig_calls' = made
                   /\ \/ /\ ak_groups' = ak_groups \cup {group_name}
                         /\ group_mapping' =
                               DictPut(group_mapping, group_name,
                                       Pk(group_name))
                         /\ report' = migrated
                         /\ mig_fails' = mig_fails
                      \/ /\ MayFail
                         /\ report' = failed
                         /\ mig_fails' = mig_fails + 1
                         /\ UNCHANGED <<group_mapping, ak_groups>>
    /\ UNCHANGED <<MigServer, ak_users, mig_op, mig_pc, mig_arg, user_results,
                   mig_before, mig_prev, mig_n, notMig>>

\* the loop over the users begins: line 119, export_users_minimal()
BeginUsers(gm) ==
    /\ mig_arg' = gm
    /\ user_results' = <<>>
    /\ mig_i' = 1
    /\ \/ /\ mig_pc' = "users"
          /\ mig_fails' = mig_fails
          /\ mig_prev' = mig_prev
       \/ /\ MayFail
          /\ mig_pc' = "raised"
          /\ mig_fails' = mig_fails + 1
          /\ mig_prev' = NoPrev

\* lines 98-103: migrate_groups returns; in migrate_all, line 226 follows
GroupsReturn ==
    /\ mig_pc = "groups" /\ mig_i > Len(kc_groups)
    /\ IF mig_op = "migrate_all"
       THEN BeginUsers(group_mapping)
       ELSE /\ mig_pc' = "returned"
            /\ mig_prev' = NoPrev
            /\ UNCHANGED <<mig_arg, user_results, mig_i, mig_fails>>
    /\ UNCHANGED <<MigServer, ak_groups, ak_users, report, mig_op,
                   group_mapping, mig_calls, mig_before, mig_n, notMig>>

\* lines 105-120: migrate_users(group_mapping), without a mapping or with
\* the one migrate_groups returned last
MigrateUsers ==
    /\ mig_pc \in {"idle", "returned", "raised"}
    /\ mig_n < MaxCalls
    /\ mig_n' = mig_n + 1
    /\ mig_op' = "migrate_users"
    /\ mig_before' = report
    /\ mig_calls' = <<>>
    /\ \E gm \in {EmptyDict, group_mapping} : BeginUsers(gm)
    /\ UNCHANGED <<MigServer, ak_groups, ak_users, report, group_mapping,
                   notMig>>

\* lines 122-204: one pass of the loop over the Keycloak users
UserIteration ==
    /\ mig_pc = "users" /\ mig_i <= Len(kc_users)
    /\ mig_i' = mig_i + 1
    /\ LET kc_user == kc_users[mig_i]
           username == kc_user.username
           authentik_groups ==
               IF mig_arg # EmptyDict /\ kc_user.groups # <<>>
               THEN MapGroups(mig_arg, kc_user.groups)
               ELSE <<>>
           existing == Search(ak_users, username)
           looked == Append(mig_calls, AkCall("list_users", username, <<>>))
           made == Append(looked,
                          AkCall("create_user", username, authentik_groups))
           pw == Append(made, AkCall("set_user_password", username, <<>>))
           migrated == [report EXCEPT !.users_migrated = @ + 1]
           failed == ItemFailed(report, "user", username)
       IN  IF IsDryRun(mig_cfg)
           THEN /\ user_results' =
                      Append(user_results, UserResult(username, "dry_run", NoId))
                /\ report' = migrated
                /\ UNCHANGED <<mig_calls, ak_users, mig_fails>>
           ELSE \/ /\ MayFail
                   /\ mig_calls' = looked
                   /\ user_results' =
                         Append(user_results,
                                UserResult(username, "failed", NoId))
                   /\ report' = failed
                   /\ mig_fails' = mig_fails + 1
                   /\ UNCHANGED ak_users
                \/ /\ Exists(existing, username)
                   /\ mig_calls' = looked
                   /\ user_results' =
                         Append(user_results,
                                UserResult(username, "exists",
                                           ExistingPk(existing, username)))
                   /\ report' = migrated
                   /\ UNCHANGED <<ak_users, mig_fails>>
                \/ /\ ~Exists(existing, username)
                   /\ MayFail
                   /\ mig_calls' = made
                   /\ user_results' =
                         Append(user_results,
                                UserResult(username, "failed", NoId))
                   /\ report' = failed
                   /\ mig_fails' = mig_fails + 1
                   /\ UNCHANGED ak_users
                \/ /\ ~Exists(existing, username)
                   /\ ak_users' = ak_users \cup {username}
                   /\ user_results' =
                         Append(user_results,
                                UserResult(username, "created", Pk(username)))
                   /\ report' = migrated
                   /\ IF mig_cfg.default_password # None
                      THEN /\ mig_calls' = pw
                           /\ \/ mig_fails' = mig_fails
                              \/ MayFail /\ mig_fails' = mig_fails + 1
                      ELSE /\ mig_calls' = made
                           /\ mig_fails' = mig_fails
    /\ UNCHANGED <<MigServer, ak_groups, mig_op, mig_pc, group_mapping,
                   mig_arg, mig_before, mig_prev, mig_n, notMig>>

\* lines 206-211 and 228-251: migrate_users returns its results, migrate_all
\* its report
UsersReturn ==
    /\ mig_pc = "users" /\ mig_i > Len(kc_users)
    /\ mig_pc' = "returned"
    /\ mig_prev' =
          [all_ok |-> /\ mig_op = "migrate_all"
                      /\ report.errors = mig_before.errors,
           mapping |-> group_mapping]
    /\ UNCHANGED <<MigServer, ak_groups, ak_users, report, mig_op, mig_i,
                   group_mapping, mig_arg, user_results, mig_calls,
                   mig_before, mig_n, mig_fails, notMig>>

MigNext ==
    \/ MigrateGroups \/ MigrateAll \/ GroupIteration \/ GroupsReturn
    \/ MigrateUsers \/ UserIteration \/ UsersReturn

(***************************************************************************)
(* interact.py: InteractiveSession.  The child prints prompts and exits    *)
(* when it likes; expect looks for its pattern in what the child has       *)
(* printed and not yet been matched, and otherwise waits until the child   *)
(* prints more, exits, or the timeout passes.                              *)
(***************************************************************************)
MaxPairs == 2
MaxPrints == 2
MaxOps == 2
Prompts == {"P1", "P2"}
Interactions == [pattern : Prompts, response : {"r"}]
InteractionLists == UNION {[1..n -> Interactions] : n \in 0..MaxPairs}

\* pexpect finds the pattern in the text read so far
Found(buf, p) == \E k \in 1..Len(buf) : buf[k] = p

\* what is left to read after the first match of the pattern
AfterMatch(buf, p) ==
    LET k == CHOOSE m \in 1..Len(buf) :
                 /\ buf[m] = p
                 /\ \A n \in 1..(m - 1) : buf[n] # p
    IN  SubSeq(buf, k + 1, Len(buf))

\* line 47: sendline(response)
SendLine_Pattern(sent, x) == Append(sent, x.pattern)
SendLine(sent, x) == Append(sent, x.response)

IsIdle ==
    /\ is_child = "none"
    /\ is_buf = <<>>
    /\ is_op = None
    /\ is_pc = "idle"
    /\ is_pairs = <<>>
    /\ is_i = 1
    /\ is_sent = <<>>
    /\ is_error = None
    /\ is_spawns = 0
    /\ is_prints = 0
    /\ is_ops = 0

IsCallable == is_pc \in {"idle", "returned", "raised"} /\ is_ops < MaxOps

\* lines 20-26: start()
Start ==
    /\ IsCallable
    /\ is_op' = "start"
    /\ is_ops' = is_ops + 1
    /\ is_child' = "running"
    /\ is_buf' = <<>>
    /\ is_spawns' = is_spawns + 1
    /\ is_pc' = "returned"
    /\ is_error' = None
    /\ is_sent' = <<>>
    /\ UNCHANGED <<is_pairs, is_i, is_prints, notIs>>

\* lines 28-38: expect_and_send(pattern, response)
ExpectAndSend ==
    /\ IsCallable
    /\ is_op' = "expect_and_send"
    /\ is_ops' = is_ops + 1
    /\ \E x \in Interactions : is_pairs' = <<x>>
    /\ is_i' = 1
    /\ is_sent' = <<>>
    /\ IF is_child = "none"
       THEN /\ is_pc' = "raised"
            /\ is_error' = "RuntimeError"
       ELSE /\ is_pc' = "expect"
            /\ is_error' = None
    /\ UNCHANGED <<is_child, is_buf, is_spawns, is_prints, notIs>>

\* lines 61-67: auto_interact(interactions)
AutoInteract ==
    /\ IsCallable
    /\ is_op' = "auto_interact"
    /\ is_ops' = is_ops + 1
    /\ is_pairs' \in InteractionLists
    /\ is_i' = 1
    /\ is_sent' = <<>>
    /\ is_error' = None
    /\ is_pc' = "expect"
    /\ IF is_child = "none"
       THEN /\ is_child' = "running"
            /\ is_buf' = <<>>
            /\ is_spawns' = is_spawns + 1
       ELSE UNCHANGED <<is_child, is_buf, is_spawns>>
    /\ UNCHANGED <<is_prints, notIs>>

\* lines 40-47: the pattern is found and the response is sent; writing to
\* a child that is gone may fail
Matched ==
    /\ is_pc = "expect" /\ is_i <= Len(is_pairs)
    /\ is_child # "closed"
    /\ Found(is_buf, is_pairs[is_i].pattern)
    /\ is_buf' = AfterMatch(is_buf, is_pairs[is_i].pattern)
    /\ \/ /\ is_sent' = SendLine(is_sent, is_pairs[is_i])
          /\ is_i' = is_i + 1
          /\ is_pc' = IF is_op = "expect_and_send" THEN "returned" ELSE is_pc
          /\ is_error' = is_error
       \/ /\ is_child = "exited"
          /\ is_pc' = "raised"
          /\ is_error' = "OSError"
          /\ UNCHANGED <<is_sent, is_i>>
    /\ UNCHANGED <<is_child, is_op, is_pairs, is_spawns, is_prints, is_ops,
                   notIs>>

\* lines 48-50: nothing that matches arrived in time
ExpectTimesOut ==
    /\ is_pc = "expect" /\ is_i <= Len(is_pairs)
    /\ is_child = "running"
    /\ ~Found(is_buf, is_pairs[is_i].pattern)
    /\ is_pc' = "raised"
    /\ is_error' = "TimeoutError"
    /\ UNCHANGED <<is_child, is_buf, is_op, is_pairs, is_i, is_sent,
                   is_spawns, is_prints, is_ops, notIs>>

\* lines 51-53: the child is gone and nothing that matches is left; pexpect
\* refuses to read from a child that was closed
ReachedEof ==
    /\ is_pc = "expect" /\ is_i <= Len(is_pairs)
    /\ \/ /\ is_child = "exited"
          /\ ~Found(is_buf, is_pairs[is_i].pattern)
          /\ is_error' = "EOFError"
       \/ /\ is_child = "closed"
          /\ is_error' = "ValueError"
    /\ is_pc' = "raised"
    /\ UNCHANGED <<is_child, is_buf, is_op, is_pairs, is_i, is_sent,
                   is_spawns, is_prints, is_ops, notIs>>

\* lines 55-59 and 72: wait_for_completion()
WaitForCompletion ==
    /\ is_pc = "expect" /\ is_op = "auto_interact"
    /\ is_i > Len(is_pairs)
    /\ \/ /\ is_child = "exited"
          /\ is_child' = "closed"
          /\ is_buf' = <<>>
          /\ is_pc' = "returned"
          /\ is_error' = is_error
       \/ /\ is_child = "running"
          /\ is_pc' = "raised"
          /\ is_error' = "TIMEOUT"
          /\ UNCHANGED <<is_child, is_buf>>
       \/ /\ is_child = "closed"
          /\ is_pc' = "raised"
          /\ is_error' = "ValueError"
          /\ UNCHANGED <<is_child, is_buf>>
    /\ UNCHANGED <<is_op, is_pairs, is_i, is_sent, is_spawns, is_prints,
                   is_ops, notIs>>

\* the child prints a prompt
ChildPrints ==
    /\ is_child = "running" /\ is_prints < MaxPrints
    /\ \E p \in Prompts : is_buf' = Append(is_buf, p)
    /\ is_prints' = is_prints + 1
    /\ UNCHANGED <<is_child, is_op, is_pc, is_pairs, is_i, is_sent, is_error,
                   is_spawns, is_ops, notIs>>

\* the child exits
ChildGone ==
    /\ is_child = "running"
    /\ is_child' = "exited"
    /\ UNCHANGED <<is_buf, is_op, is_pc, is_pairs, is_i, is_sent, is_error,
                   is_spawns, is_prints, is_ops, notIs>>

IsNext ==
    \/ Start \/ ExpectAndSend \/ AutoInteract
    \/ Matched \/ ExpectTimesOut \/ ReachedEof \/ WaitForCompletion
    \/ ChildPrints \/ ChildGone

\* a fixed state of the container runner, which plays no part here
DockerIdle ==
    /\ DockerInit
    /\ client = "none"
    /\ images = {}
    /\ containers = [c \in Ids |-> "absent"]

CoreNext ==
    \/ Run \/ ChildExits \/ ChildTimesOut \/ TimeoutHandler \/ SpawnFails
    \/ Finish

CoreInit ==
    CoreIdle /\ DockerIdle /\ ShellIdle /\ BulkIdle /\ CliIdle /\ TfIdle /\
    IoIdle /\ PkgIdle /\ MigIdle /\ IsIdle

ShellInit ==
    ShellStart /\ CoreIdle /\ DockerIdle /\ BulkIdle /\ CliIdle /\ TfIdle /\
    IoIdle /\ PkgIdle /\ MigIdle /\ IsIdle

ShellSpec == ShellInit /\ [][ShellNext]_vars

EnvInit ==
    EnvStart /\ CoreIdle /\ DockerIdle /\ BulkIdle /\ CliIdle /\ TfIdle /\
    IoIdle /\ PkgIdle /\ MigIdle /\ IsIdle

BulkInit ==
    BulkStart /\ CoreIdle /\ DockerIdle /\ ShellIdle /\ CliIdle /\ TfIdle /\
    IoIdle /\ PkgIdle /\ MigIdle /\ IsIdle

BulkSpec == BulkInit /\ [][BulkNext]_vars

CliInit ==
    CliIdle /\ BulkStart /\ CoreIdle /\ DockerIdle /\ ShellIdle /\ TfIdle /\
    IoIdle /\ PkgIdle /\ MigIdle /\ IsIdle

CliSpec == CliInit /\ [][CliNext]_vars

EnvSpec == EnvInit /\ [][EnvNext]_vars

CoreSpec == CoreInit /\ [][CoreNext]_vars

TfInit ==
    TfIdle /\ CoreIdle /\ DockerIdle /\ ShellIdle /\ BulkIdle /\ CliIdle /\
    IoIdle /\ PkgIdle /\ MigIdle /\ IsIdle

TfSpec == TfInit /\ [][TfNext]_vars

IoInit ==
    IoIdle /\ CoreIdle /\ DockerIdle /\ ShellIdle /\ BulkIdle /\ CliIdle /\
    TfIdle /\ PkgIdle /\ MigIdle /\ IsIdle

IoSpec == IoInit /\ [][IoNext]_vars

PkgInit ==
    PkgStart /\ CoreIdle /\ DockerIdle /\ ShellIdle /\ BulkIdle /\ CliIdle /\
    TfIdle /\ IoIdle /\ MigIdle /\ IsIdle

PkgSpec == PkgInit /\ [][PkgNext]_vars

MigInit ==
    MigStart /\ CoreIdle /\ DockerIdle /\ ShellIdle /\ BulkIdle /\ CliIdle /\
    TfIdle /\ IoIdle /\ PkgIdle /\ IsIdle

MigSpec == MigInit /\ [][MigNext]_vars

IsInit ==
    IsIdle /\ CoreIdle /\ DockerIdle /\ ShellIdle /\ BulkIdle /\ CliIdle
    /\ TfIdle /\ IoIdle /\ PkgIdle /\ MigIdle

IsSpec == IsInit /\ [][IsNext]_vars

DockerNext ==
    \/ RunContainer \/ StopContainer
    \/ ProgramStep
    \/ ReadLine \/ StreamEnds \/ StreamFails
    \/ Tick \/ ContainerExits \/ AutoRemoved

Init ==
    DockerInit /\ CoreIdle /\ ShellIdle /\ BulkIdle /\ CliIdle /\ TfIdle /\
    IoIdle /\ PkgIdle /\ MigIdle /\ IsIdle

Spec == Init /\ [][DockerNext]_vars

\* the calling thread always gets to take its next step, and time passes;
\* nothing obliges a container to print, to exit or to be removed
FairSpec == Spec /\ WF_vars(ProgramStep) /\ WF_vars(Tick)

(***************************************************************************)
(* Properties of run_container and stop_container.                         *)
(***************************************************************************)
InRun == op = "run_container"
InStop == op = "stop_container"
WaitFailed == InRun /\ pc = "raised" /\ wait_exit \in {"timeout", "error"}
IsCall(i, api, target) == calls[i].api = api /\ calls[i].target = target

\* C1: when the wait timeout has been detected, the caller gets a timeout
\* error and exactly one stop call has been issued on the container.
C1_TimeoutStopsOnce ==
    (InRun /\ pc = "raised" /\ wait_exit = "timeout")
        => (error = "TimeoutError" /\ StopCount(NewId(args)) = 1)

\* C2: when the log stream ends before a match and before the timeout, the
\* call attempts a stop and raises instead of returning a handle.
C2_StreamEndRaises ==
    (InRun /\ Finished /\ wait_exit = "stream_end")
        => (pc = "raised" /\ result = None /\ StopCount(NewId(args)) >= 1)

\* C3: the log-wait is bounded: a call that is in the log-wait phase
\* eventually returns or raises, whatever the log stream does.
C3_WaitTerminates == (InRun /\ pc \in {"read", "timecheck", "except"}) ~> Finished

C5_RemoveBeforeCreate ==
    InRun =>
      /\ ~HasName(args) =>
            ApiCalls("containers.get") \cup ApiCalls("remove_force") = {}
      /\ \A i \in ApiCalls("containers.run") :
            HasName(args) =>
              \E j \in 1..(i - 1) :
                /\ IsCall(j, "containers.get", args.name)
                /\ calls[j].ret \in {"ok", "NotFound"}
                /\ calls[j].ret = "ok" =>
                      (j + 1 < i /\ IsCall(j + 1, "remove_force", args.name))
      /\ \A i \in ApiCalls("containers.get") :
            /\ calls[i].ret = "ok" /\ i = Len(calls) => pc = "remove"
            /\ calls[i].ret = "NotFound" /\ i = Len(calls) => pc = "run"
            /\ calls[i].ret = "NotFound" /\ i < Len(calls) =>
                  calls[i + 1].api = "containers.run"
      /\ \A i \in ApiCalls("remove_force") :
            /\ i < Len(calls) => calls[i + 1].api = "containers.run"
            /\ i = Len(calls) /\ calls[i].ret # "APIError" => pc = "run"

C5_Witness ==
    /\ InRun
    /\ \E i, j \in 1..Len(calls) :
        /\ i < j
        /\ IsCall(i, "remove_force", "X") /\ calls[i].ret = "ok"
        /\ IsCall(j, "containers.run", "X") /\ calls[j].ret = "ok"

\* C6: the image lookup is the first call; the pull is issued if and only if
\* the lookup reported the image absent; a failed pull aborts the operation
\* with that error before any container is looked up, removed or started.
C6_PullIffAbsent ==
    InRun =>
      /\ Len(calls) > 0 => ApiCalls("images.get") = {1}
      /\ ApiCalls("images.pull") # {} =>
            (ApiCalls("images.pull") = {2} /\ calls[1].ret = "NotFound")
      /\ (Len(calls) > 0 /\ calls[1].ret = "NotFound") =>
            (pc = "pull" \/ ApiCalls("images.pull") = {2})
      /\ (Len(calls) > 1 /\ calls[2].api = "images.pull" /\ calls[2].ret # "ok") =>
            /\ pc = "raised"
            /\ error = calls[2].ret
            /\ result = None
            /\ Len(calls) = 2

C6_Witness ==
    /\ InRun /\ pc = "raised" /\ HasName(args)
    /\ Len(calls) = 2 /\ calls[2].api = "images.pull" /\ calls[2].ret = "APIError"
    /\ containers["X"] # "absent"

\* C7: a validly encoded line that contains the wait substring and is read
\* before the deadline ends the wait with a handle; it is never passed over.
C7_MatchReturns ==
    (InRun /\ line # NoLine /\ DecodeOk(line)
       /\ ~(now - start_time > args.wait_timeout))
        => ~Contains(line, args.wait_for_log)

\* C8 (as stated): after a failed log-wait the new container is left stopped
\* (present, not running), no handle is returned, and the only remove issued
\* is the one on the pre-existing container before the start.  Stated here
\* for the calls in which every stop returned normally.
RemovesOnlyBeforeStart ==
    \A i \in ApiCalls("remove_force") :
        /\ HasName(args) /\ calls[i].target = args.name
        /\ i > 1 /\ IsCall(i - 1, "containers.get", args.name)
        /\ \A j \in ApiCalls("containers.run") : i < j

C8_LeftStopped ==
    (WaitFailed /\ \A i \in ApiCalls("stop") : calls[i].ret = "ok") =>
      /\ containers[NewId(args)] = "exited"
      /\ result = None
      /\ RemovesOnlyBeforeStart

\* C8 (amended): after a failed log-wait a stop has been issued on the new
\* container, no remove was issued on it, and no handle is returned; the
\* container is no longer running if a stop returned normally, and is still
\* present, stopped, if moreover it was started without auto_remove.
C8_StoppedNotRemoved ==
    WaitFailed =>
      /\ result = None
      /\ StopCount(NewId(args)) >= 1
      /\ RemovesOnlyBeforeStart
      /\ (\E i \in ApiCalls("stop") : calls[i].ret = "ok") =>
            /\ containers[NewId(args)] # "running"
            /\ ~args.auto_remove => containers[NewId(args)] = "exited"

C8_Witness ==
    /\ WaitFailed /\ HasName(args)
    /\ ApiCalls("remove_force") # {}
    /\ containers[NewId(args)] = "exited"

\* C9: stop_container on a name the runtime does not know returns without an
\* error and without a stop call; on an existing container it issues exactly
\* one stop, with the given timeout; repeated once the container is gone, it
\* still returns normally.
C9_StopIdempotent ==
    (InStop /\ Len(calls) > 0) =>
      /\ IsCall(1, "containers.get", args.name_or_id)
      /\ calls[1].ret = "NotFound" =>
            /\ pc = "returned" /\ error = None
            /\ Len(calls) = 1
      /\ (calls[1].ret = "ok" /\ Finished) =>
            /\ Len(calls) = 2
            /\ calls[2].api = "stop"
            /\ calls[2].target = args.name_or_id
            /\ calls[2].timeout = args.timeout
            /\ calls[2].ret \in {"ok", "NotFound"} <=> pc = "returned"
      /\ ApiCalls("stop") \subseteq {2}
      /\ again /\ Finished /\ calls[1].ret = "NotFound" => pc = "returned"

C9_Witness ==
    /\ InStop /\ again /\ pc = "returned" /\ error = None
    /\ calls = <<Call("containers.get", args.name_or_id, "NotFound", NoArg)>>

(***************************************************************************)
(* Properties of core.run.                                                 *)
(***************************************************************************)

\* C10: run raises ShellError exactly when check is set and the child's exit
\* code is not zero; the error carries the CommandResult, whose exit code,
\* stdout and stderr are those the same command returns with check=False;
\* otherwise a completed child yields a returned result and no error.
C10_ShellErrorIffStrictFailure ==
    /\ (run_pc = "raised" /\ IsShellError(run_error)) =>
          /\ run_args.check /\ proc.returncode # 0
          /\ run_error.result.exit_code = proc.returncode
    /\ (run_pc = "raised" /\ ~IsShellError(run_error)) =>
          run_error.type \in {"TimeoutExpired", "OSError"}
    /\ run_pc = "returned" =>
          /\ ~(run_args.check /\ proc.returncode # 0)
          /\ run_error = NoError
          /\ run_result.exit_code = proc.returncode
    /\ seen[FALSE].kind = "raised" => ~IsShellError(seen[FALSE].error)
    /\ (seen[TRUE].kind = "raised" /\ seen[FALSE].kind = "returned") =>
          (IsShellError(seen[TRUE].error) =>
              /\ seen[TRUE].error.result.exit_code = seen[FALSE].result.exit_code
              /\ seen[TRUE].error.result.stdout = seen[FALSE].result.stdout
              /\ seen[TRUE].error.result.stderr = seen[FALSE].result.stderr)

C10_Witness ==
    /\ run_pc = "raised" /\ IsShellError(run_error)
    /\ seen[FALSE].kind = "returned"
    /\ run_args.capture_output /\ run_args.cmd.err = <<"R", WS>>
    /\ run_error.result.stderr = <<"R">>

\* C11: every CommandResult that run produces, returned or carried by a
\* ShellError, reports ok() exactly when its exit code is zero, which is
\* exactly when the child exited with zero.
C11_OkIffZeroExit ==
    /\ run_pc = "returned" =>
          /\ Ok(run_result) <=> run_result.exit_code = 0
          /\ Ok(run_result) <=> run_args.cmd.returncode = 0
    /\ (run_pc = "raised" /\ IsShellError(run_error)) =>
          /\ Ok(run_error.result) <=> run_error.result.exit_code = 0
          /\ ~Ok(run_error.result)
    /\ \A c \in BOOLEAN :
          /\ seen[c].kind = "returned" =>
                (Ok(seen[c].result) <=> seen[c].result.exit_code = 0)
          /\ (seen[c].kind = "raised" /\ IsShellError(seen[c].error)) =>
                ~Ok(seen[c].error.result)

C11_Witness ==
    /\ run_pc = "returned" /\ ~Ok(run_result) /\ run_result.exit_code = -9
    /\ seen[TRUE].kind = "raised" /\ IsShellError(seen[TRUE].error)

\* C12: when the timeout expires before the child has exited, the child has
\* been killed by the time the error is handled, the call ends by raising
\* TimeoutExpired to the caller, no CommandResult is produced, and the check
\* flag plays no part: a timed-out call never raises ShellError.
C12_TimeoutKillsThenRaises ==
    /\ [](run_pc = "except" =>
            /\ child = "killed"
            /\ run_args.timeout # NoTimeout
            /\ run_result = NoResult /\ run_error = NoError)
    /\ [][run_pc = "except" =>
            /\ run_pc' = "raised"
            /\ run_error' = TimeoutExpired
            /\ run_result' = NoResult
            /\ child' = "killed"]_cvars
    /\ []((run_pc \in {"returned", "raised"} /\ child = "killed") =>
            /\ run_pc = "raised"
            /\ run_error = TimeoutExpired
            /\ run_result = NoResult
            /\ seen[run_args.check] = [kind |-> "raised", error |-> TimeoutExpired])
    /\ []((run_pc = "raised" /\ run_error = TimeoutExpired) => child = "killed")

C12_Witness ==
    /\ run_pc = "raised" /\ run_error = TimeoutExpired /\ child = "killed"
    /\ run_args.check /\ run_args.cmd.returncode # 0
    /\ seen[FALSE] = [kind |-> "raised", error |-> TimeoutExpired]

(***************************************************************************)
(* Properties of run's environment and of Shell sessions.                  *)
(***************************************************************************)
\* the env= argument of the run call made last
Overlay == IF last.value = "caller_env" THEN caller_env ELSE EmptyMap

\* the session is left as it was by the step
SessionsUntouched ==
    /\ shells' = shells /\ shell_cwd' = shell_cwd /\ shell_env' = shell_env
    /\ copies' = copies /\ caller_env' = caller_env

\* C13: the environment run hands to the child has, for every key of the env
\* argument, the argument's value, and for every other key the value of the
\* process environment; the call changes neither the process environment nor
\* the caller's map.
C13_OverlayOverAmbient ==
    /\ [](last.op = "run" =>
            /\ spawn.made
            /\ \A k \in Keys :
                /\ Overlay[k] # Unset => spawn.env[k] = Overlay[k]
                /\ Overlay[k] = Unset => spawn.env[k] = environ[k])
    /\ [][last'.op = "run" =>
            (environ' = environ /\ caller_env' = caller_env)]_svars

C13_Witness ==
    /\ last.op = "run" /\ last.value = "caller_env"
    /\ environ["K"] = "a" /\ environ["P"] = "a"
    /\ caller_env["K"] = "b" /\ caller_env["P"] = Unset
    /\ spawn.env["K"] = "b" /\ spawn.env["P"] = "a"

\* C14: a cd whose path, joined to the session's cwd, names no existing
\* directory raises FileNotFoundError and leaves the session's cwd and env
\* (and every other session) as they were; otherwise cwd becomes the resolved
\* path, in one step, and that path is an existing directory.
C14_CdAllOrNothing ==
    [][last'.op = "cd" =>
        LET s == last'.s
            target == Abspath(os_cwd, Join(shell_cwd[s], last'.path))
        IN  /\ target \notin Dirs =>
                /\ sh_ret'.kind = "raised"
                /\ sh_ret'.error = [type |-> "FileNotFoundError"]
                /\ SessionsUntouched
            /\ target \in Dirs =>
                /\ sh_ret'.kind = "returned"
                /\ shell_cwd' = [shell_cwd EXCEPT ![s] = target]
            /\ shell_cwd'[s] # shell_cwd[s] => shell_cwd'[s] \in Dirs
            /\ shell_env' = shell_env /\ copies' = copies
            /\ caller_env' = caller_env /\ shells' = shells]_svars

C14_Witness ==
    /\ last.op = "cd" /\ last.s = "s1" /\ last.path = <<"b">>
    /\ sh_ret.kind = "raised"
    /\ shell_cwd["s1"] = <<"/", "a", "b">>
    /\ last_set["s1"]["K"] = "b"

\* C15: a successful cd with a relative path sets the session's cwd to the
\* join of its former cwd and the path, normalised, whatever the working
\* directory of the process; cd and Shell.run leave the working directory of
\* the process alone.
C15_CdJoinsSessionCwd ==
    [][/\ (last'.op = "cd" /\ sh_ret'.kind = "returned" /\ ~IsAbs(last'.path))
            => shell_cwd'[last'.s] =
                  NormPath(Join(shell_cwd[last'.s], last'.path))
       /\ last'.op \in {"cd", "Shell.run"} => os_cwd' = os_cwd]_svars

C17_LastSetenvWins ==
    /\ (last.op = "getenv" /\ last_set[last.s][last.key] # Unset) =>
          sh_ret.value = last_set[last.s][last.key]
    /\ last.op = "Shell.run" =>
          \A k \in Keys :
              last_set[last.s][k] # Unset => spawn.env[k] = last_set[last.s][k]

\* C18: the cwd of every constructed session is an absolute, normalised path
\* that names an existing directory.
C18_CwdIsExistingDirectory ==
    \A s \in shells :
        /\ IsAbs(shell_cwd[s])
        /\ NormPath(shell_cwd[s]) = shell_cwd[s]
        /\ shell_cwd[s] \in Dirs

\* C19: the env map of a session changes only in that session's setenv and
\* its cwd only in that session's cd; a setenv changes neither the caller's
\* dict nor the process environment.
C19_OnlyOwnCallsChangeSession ==
    [][/\ \A s \in shells :
            /\ SessionEnv(s)' # SessionEnv(s) =>
                  (last'.op = "setenv" /\ last'.s = s)
            /\ shell_cwd'[s] # shell_cwd[s] => (last'.op = "cd" /\ last'.s = s)
       /\ last'.op = "setenv" =>
            (caller_env' = caller_env /\ environ' = environ)]_svars

(***************************************************************************)
(* Properties of create_providers_bulk.                                    *)
(***************************************************************************)
\* C20: create_providers_bulk tries create_provider once for each config, in
\* list order, whatever the earlier ones did, and returns a list as long as
\* its input whose i-th entry is what create_provider returned for the i-th
\* config, or, when it failed, an error entry with that config's client_id
\* and app_name.
C20_BulkReportsEachItem ==
    bulk_pc \in {"loop", "returned"} =>
      /\ Len(results) = bulk_i - 1
      /\ Len(attempts) = bulk_i - 1
      /\ bulk_i <= Len(configs) + 1
      /\ bulk_pc = "returned" => Len(results) = Len(configs)
      /\ \A j \in 1..Len(results) :
            /\ attempts[j].client_id = configs[j].client_id
            /\ results[j].client_id = configs[j].client_id
            /\ results[j].app_name = configs[j].app_name
            /\ HasError(results[j]) <=> attempts[j].outcome # "ok"
            /\ HasError(results[j]) => results[j].error = attempts[j].outcome
            /\ ~HasError(results[j]) => results[j] = Created(configs[j])

C20_Witness ==
    /\ bulk_pc = "returned" /\ Len(configs) = 2
    /\ configs[1].client_id = configs[2].client_id
    /\ ~HasError(results[1]) /\ HasError(results[2])
    /\ results[2].app_name = "B" /\ results[1].app_name = "A"

WrappedSucceeded ==
    IF cli_cmd = "exec"
    THEN cli_wrapped.kind = "returned" /\ cli_wrapped.result.exit_code = 0
    ELSE /\ bulk_pc = "returned"
         /\ \A j \in 1..Len(results) : ~HasError(results[j])

\* C21: a command that has ended exits with status 0 only if the operation
\* it wraps succeeded (the child of `run exec` exited with 0, every provider
\* of `oauth-bulk-create` was created), and a failure is printed.
C21_ExitZeroOnlySuccess ==
    cli_pc = "done" =>
        /\ cli_exit.exited
        /\ cli_exit.status = 0 => WrappedSucceeded
        /\ ~WrappedSucceeded =>
              \E i \in 1..Len(cli_out) :
                  cli_out[i] \in {"Failed", "Failed:", "Error running command",
                                  "Traceback"}

(***************************************************************************)
(* Properties of external_data_handler.                                    *)
(***************************************************************************)
\* C22: the function is called at most once, and only with the value read
\* from standard input; when the handler returns, the function was called
\* once, standard output holds the JSON text of its return value, standard
\* error is empty and the process has not exited; when reading, the
\* function or serialising raised, the handler ends by exiting with a
\* non-zero status and standard error holds the error's message.
C22_ExternalDataProtocol ==
    /\ [](/\ Len(tf_calls) <= 1
          /\ \A i \in 1..Len(tf_calls) :
                JsonLoad(tf_stdin) = [value |-> tf_calls[i], exc |-> NoExc]
          /\ tf_pc = "returned" =>
                /\ Len(tf_calls) = 1
                /\ tf_exc = NoExc
                /\ JsonLoad(tf_stdout) = [value |-> tf_result, exc |-> NoExc]
                /\ tf_stderr = "" /\ tf_exit = NoExit
          /\ tf_pc = "exited" =>
                /\ tf_exc # NoExc
                /\ tf_exit.exited /\ tf_exit.status # 0
                /\ tf_stderr = tf_exc.msg
          /\ tf_pc \in {"call", "dump", "returned"} =>
                JsonLoad(tf_stdin).exc = NoExc
          /\ tf_pc = "returned" => JsonDump(tf_result).exc = NoExc
          /\ tf_pc \notin {"except", "exited"} => tf_exc = NoExc)
    /\ [][tf_pc = "except" => tf_pc' = "exited"]_tvars
    /\ [][(tf_pc \in {"returned", "exited"}) => UNCHANGED tvars]_tvars

\* a function returned a value json cannot finish writing, and the process
\* exited with the message on standard error
C22_Witness ==
    /\ tf_pc = "exited" /\ tf_exc.type = "TypeError"
    /\ tf_stdout = <<"{">> /\ Len(tf_calls) = 1
    /\ tf_stderr = "not JSON serializable"

(***************************************************************************)
(* Properties of IOCatcher.                                                *)
(***************************************************************************)
\* the restoring of stream s in __exit__ did not raise
RestoredOk(s) == io_pc = "after" /\ ~io_failed[s]

\* C23: once the context has exited, after a body that ended normally or
\* raised, descriptors 1 and 2 name the files they named before entry, and
\* nothing written after the exit is in a temporary file, for each stream
\* whose restoring did not itself fail, whatever happened to the other
\* stream; a stream that is not captured is never redirected.
C23_StreamsRestored ==
    /\ RestoredOk("stdout") =>
          /\ io_fds[1] = "out"
          /\ \A i \in 1..Len(io_files["tmp_out"]) :
                io_files["tmp_out"][i] # "after"
    /\ RestoredOk("stderr") =>
          /\ io_fds[2] = "err"
          /\ \A i \in 1..Len(io_files["tmp_err"]) :
                io_files["tmp_err"][i] # "after"
    /\ (io_pc # "before" /\ ~io_self.capture_stdout) => io_fds[1] = "out"
    /\ (io_pc # "before" /\ ~io_self.capture_stderr) => io_fds[2] = "err"
    /\ io_pc = "before" => (io_fds[1] = "out" /\ io_fds[2] = "err")

\* both streams were captured, the body raised, restoring stdout failed and
\* stderr was restored all the same; text written later reached it
C23_Witness ==
    /\ io_pc = "after" /\ io_body = "raised"
    /\ io_self.capture_stdout /\ io_self.capture_stderr
    /\ io_failed.stdout /\ ~io_failed.stderr
    /\ io_fds[1] = "tmp_out" /\ io_fds[2] = "err"
    /\ io_files["err"] = <<"after">>

(***************************************************************************)
(* Properties of Apt.install and Dnf.install.                              *)
(***************************************************************************)
\* the install commands and the update commands among the commands run
IsInstallCmd(c) == \E i \in 1..Len(c) : c[i] = "install"
IsUpdateCmd(c) == \E i \in 1..Len(c) : c[i] \in {"update", "check-update"}
InstallsRun(cmds) == SelectSeq(cmds, IsInstallCmd)

\* the requested packages that were not installed when install was called,
\* in the order of the request
Missing ==
    LET req == IF pk_args.packages.str # None
               THEN <<pk_args.packages.str>>
               ELSE pk_args.packages.list
        F[i \in 0..Len(req)] ==
            IF i = 0 THEN <<>>
            ELSE IF req[i] \in pk_before THEN F[i - 1]
            ELSE Append(F[i - 1], req[i])
    IN  F[Len(req)]

\* C24: an install call runs at most one install command, and its packages
\* are the requested packages that were not installed, in request order;
\* when none is missing it runs no install and no update command and
\* returns True; an install call that follows a successful install call of
\* the same packages runs no install command.
C24_InstallIdempotent ==
    /\ [](pk_ret.op = "install" =>
            /\ Len(InstallsRun(pk_cmds)) <= 1
            /\ \A i \in 1..Len(pk_cmds) :
                  IsInstallCmd(pk_cmds[i]) =>
                      \E pre \in {<<>>, <<"sudo">>} :
                          pk_cmds[i] =
                              pre \o <<Tool(pk_mgr), "install", "-y">>
                                  \o Missing
            /\ (Missing # <<>> /\ pk_ret.kind = "returned") =>
                  Len(InstallsRun(pk_cmds)) = 1
            /\ Missing = <<>> =>
                  /\ pk_ret = PkgReturned("install", TRUE)
                  /\ \A i \in 1..Len(pk_cmds) :
                        ~IsInstallCmd(pk_cmds[i]) /\ ~IsUpdateCmd(pk_cmds[i]))
    /\ [][(/\ pk_ret = PkgReturned("install", TRUE)
           /\ pk_ret'.op = "install"
           /\ pk_args'.packages = pk_args.packages)
          => (InstallsRun(pk_cmds') = <<>> /\ pk_db' = pk_db)]_pvars

\* an install of two packages, one of them installed before, asked with
\* update: only the missing one was handed to the install command
C24_Witness ==
    /\ pk_ret = PkgReturned("install", TRUE)
    /\ pk_args.packages.list = <<"a", "b">> /\ pk_args.update
    /\ pk_before = {"a"}
    /\ pk_mgr.kind = "dnf" /\ ~pk_mgr.use_sudo
    /\ pk_cmds = <<<<"rpm", "-q", "a">>, <<"rpm", "-q", "b">>,
                   <<"dnf", "check-update">>,
                   <<"dnf", "install", "-y", "b">>>>

(***************************************************************************)
(* Properties of KeycloakToAuthentikMigrator.                              *)
(***************************************************************************)
CreateApis == {"create_group", "create_user", "set_user_password"}
CreateCalls == {i \in 1..Len(mig_calls) : mig_calls[i].api \in CreateApis}

\* C25: a migrator made with dry_run=True asks Authentik for nothing that
\* creates or changes an entry, whatever methods are called and however
\* often: no create_group, create_user or set_user_password request, the
\* groups and users Authentik holds stay as they are, every user result
\* has status "dry_run" and every group maps to its placeholder id.
C25_DryRunChangesNothing ==
    /\ [](mig_cfg.dry_run =>
            /\ CreateCalls = {}
            /\ \A i \in 1..Len(user_results) :
                  user_results[i].status = "dry_run"
            /\ \A q \in group_mapping : q[2] = DryRunId(q[1])
            /\ mig_pc = "returned" =>
                  /\ mig_op # "migrate_groups" =>
                        Len(user_results) = Len(kc_users)
                  /\ mig_op # "migrate_users" =>
                        DictKeys(group_mapping) =
                            {kc_groups[i].name : i \in 1..Len(kc_groups)})
    /\ [][mig_cfg.dry_run =>
            (ak_groups' = ak_groups /\ ak_users' = ak_users)]_mvars
    /\ [][mig_cfg' = mig_cfg]_mvars

\* a second call on a dry-run migrator, a migrate_all, has returned a
\* placeholder for two groups and a dry_run result for two users
C25_Witness ==
    /\ mig_cfg.dry_run /\ mig_n = 2
    /\ mig_op = "migrate_all" /\ mig_pc = "returned"
    /\ group_mapping = {<<G1, DryRunId(G1)>>, <<G2, DryRunId(G2)>>}
    /\ Len(user_results) = 2
    /\ report.users_migrated >= 2

IsGroupCall(c) == c.api \in {"list_groups", "create_group"}
IsUserCall(c) == c.api \in {"list_users", "create_user", "set_user_password"}

\* C26: among the requests of one call, every group request comes before
\* every user request; the users of migrate_all are given the mapping its
\* group step produced; a user is created with the ids that mapping holds
\* for the user's groups and with no other id; and a group that failed
\* does not keep migrate_all from handling every user.
C26_GroupsThenUsers ==
    /\ \A i, j \in 1..Len(mig_calls) :
          (IsGroupCall(mig_calls[i]) /\ IsUserCall(mig_calls[j])) => i < j
    /\ (mig_op = "migrate_all" /\ mig_pc \in {"users", "returned"}) =>
          mig_arg = group_mapping
    /\ mig_pc = "groups" =>
          \A i \in 1..Len(mig_calls) : IsGroupCall(mig_calls[i])
    /\ \A i \in 1..Len(mig_calls) :
          mig_calls[i].api = "create_user" =>
              /\ \A k \in 1..Len(mig_calls[i].groups) :
                    mig_calls[i].groups[k] \in DictValues(mig_arg)
              /\ \E u \in 1..Len(kc_users) :
                    /\ kc_users[u].username = mig_calls[i].name
                    /\ mig_calls[i].groups =
                          SelectSeq([k \in 1..Len(kc_users[u].groups) |->
                                        Pk(kc_users[u].groups[k])],
                                    LAMBDA id : id \in DictValues(mig_arg))
    /\ (mig_op = "migrate_all" /\ mig_pc = "returned") =>
          Len(user_results) = Len(kc_users)

\* migrate_all has returned; the first group failed, the second was
\* migrated, and the user who is in both was created in the second only
C26_Witness ==
    /\ mig_op = "migrate_all" /\ mig_pc = "returned"
    /\ report.groups_failed = 1
    /\ group_mapping = {<<G2, Pk(G2)>>}
    /\ \E i \in 1..Len(mig_calls) :
          mig_calls[i] = AkCall("create_user", U1, <<Pk(G2)>>)

FailedResults == {i \in 1..Len(user_results) : user_results[i].status = "failed"}

\* C27: the report has one error for each failed group and each failed
\* user; when migrate_users has returned there is one result for each
\* exported user, in export order, users_failed has grown by the number of
\* results of status "failed" and users_migrated by the number of the
\* others; the group counters have grown by the number of groups; and a
\* loop that has handled k items has k results, failed or not.
C27_ReportAccounting ==
    /\ Len(report.errors) = report.groups_failed + report.users_failed
    /\ mig_pc = "users" => Len(user_results) = mig_i - 1
    /\ (mig_pc = "returned" /\ mig_op \in {"migrate_users", "migrate_all"}) =>
          /\ Len(user_results) = Len(kc_users)
          /\ \A i \in 1..Len(kc_users) :
                user_results[i].username = kc_users[i].username
          /\ report.users_failed - mig_before.users_failed =
                Cardinality(FailedResults)
          /\ report.users_migrated - mig_before.users_migrated =
                Len(user_results) - Cardinality(FailedResults)
    /\ (mig_pc = "returned" /\ mig_op \in {"migrate_groups", "migrate_all"}) =>
          /\ (report.groups_migrated - mig_before.groups_migrated)
                + (report.groups_failed - mig_before.groups_failed)
                = Len(kc_groups)
          /\ report.groups_migrated - mig_before.groups_migrated =
                Cardinality(DictKeys(group_mapping))

\* the second call of a migrator, a migrate_users, has returned: the first
\* user failed, the second did not, and an earlier call left a failure too
C27_Witness ==
    /\ mig_n = 2 /\ mig_op = "migrate_users" /\ mig_pc = "returned"
    /\ Len(user_results) = 2
    /\ user_results[1].status = "failed"
    /\ user_results[2].status = "created"
    /\ Len(report.errors) = 2
    /\ mig_before.groups_failed = 1

\* the item the loop is about to handle is in the answer to its search
GroupFound ==
    /\ mig_pc = "groups" /\ mig_i <= Len(kc_groups)
    /\ \E g \in Search(ak_groups, kc_groups[mig_i].name) :
          g.name = kc_groups[mig_i].name
UserFound ==
    /\ mig_pc = "users" /\ mig_i <= Len(kc_users)
    /\ \E g \in Search(ak_users, kc_users[mig_i].username) :
          g.name = kc_users[mig_i].username

\* C28: without dry_run, the pass for a group or user that Authentik's
\* search returns under its exact name adds no create request, holds no
\* new entry on the server, and (unless the search itself failed) reports
\* the existing id, for a user with status "exists"; a migrate_all that
\* follows a migrate_all without failures makes no create_group,
\* create_user or set_user_password request, and returns the same group
\* mapping if it has no failure either.
C28_NoDuplicates ==
    /\ [][(~mig_cfg.dry_run /\ GroupFound /\ mig_i' = mig_i + 1) =>
            /\ CreateCalls' = CreateCalls
            /\ ak_groups' = ak_groups
            /\ report'.groups_failed = report.groups_failed =>
                  <<kc_groups[mig_i].name, Pk(kc_groups[mig_i].name)>>
                      \in group_mapping']_mvars
    /\ [][(~mig_cfg.dry_run /\ UserFound /\ mig_i' = mig_i + 1) =>
            /\ CreateCalls' = CreateCalls
            /\ ak_users' = ak_users
            /\ report'.users_failed = report.users_failed =>
                  user_results'[mig_i] =
                      UserResult(kc_users[mig_i].username, "exists",
                                 Pk(kc_users[mig_i].username))]_mvars
    /\ []((/\ ~mig_cfg.dry_run /\ mig_prev.all_ok
           /\ mig_op = "migrate_all" /\ mig_pc \in {"groups", "users"})
          => CreateCalls = {})
    /\ [][(/\ ~mig_cfg.dry_run /\ mig_prev.all_ok
           /\ mig_op = "migrate_all" /\ mig_pc = "users"
           /\ mig_pc' = "returned"
           /\ report.errors = mig_before.errors)
          => (group_mapping = mig_prev.mapping /\ CreateCalls = {})]_mvars

\* a second migrate_all has returned after a first one that created both
\* users and failed nowhere: every user exists, nothing was created again
C28_Witness ==
    /\ ~mig_cfg.dry_run /\ mig_n = 2
    /\ mig_op = "migrate_all" /\ mig_pc = "returned"
    /\ report.errors = <<>>
    /\ report.users_migrated = 4 /\ report.groups_migrated = 4
    /\ \A i \in 1..Len(user_results) : user_results[i].status = "exists"
    /\ CreateCalls = {}
    /\ group_mapping = {<<G1, Pk(G1)>>, <<G2, Pk(G2)>>}

(***************************************************************************)
(* Properties of InteractiveSession.                                       *)
(***************************************************************************)
\* the responses of the first n pairs of the call
Responses(n) == [j \in 1..n |-> is_pairs[j].response]

\* C30: auto_interact starts a child exactly when the session has none;
\* the responses sent are those of the pairs handled so far, in list
\* order, and a response is sent only in a step before which its pattern
\* was in the child's output; when waiting for pattern i times out or meets
\* the end of the child's output, the call raises TimeoutError or EOFError
\* with only the responses before i sent, and sends nothing afterwards; the
\* call waits for the child only when every response was sent; and
\* expect_and_send on a session without a child raises RuntimeError and
\* sends nothing.
C30_InteractInOrder ==
    /\ [](is_op \in {"auto_interact", "expect_and_send"} =>
            /\ is_i <= Len(is_pairs) + 1
            /\ is_sent = Responses(Len(is_sent))
            /\ Len(is_sent) = is_i - 1
            /\ is_error \in {"TimeoutError", "EOFError"} =>
                  (is_pc = "raised" /\ is_i <= Len(is_pairs))
            /\ (is_op = "auto_interact" /\ is_pc = "returned") =>
                  (Len(is_sent) = Len(is_pairs) /\ is_child = "closed")
            /\ is_error = "TIMEOUT" => Len(is_sent) = Len(is_pairs)
            /\ is_error = "RuntimeError" =>
                  (is_child = "none" /\ is_sent = <<>> /\ is_pc = "raised")
            /\ (is_op = "expect_and_send" /\ is_child = "none") =>
                  (is_error = "RuntimeError" /\ is_pc = "raised")
            /\ is_op = "auto_interact" => is_child # "none")
    /\ [][(is_sent' # is_sent /\ is_ops' = is_ops) =>
            /\ is_pc = "expect" /\ is_i <= Len(is_pairs)
            /\ \E k \in 1..Len(is_buf) : is_buf[k] = is_pairs[is_i].pattern
            /\ is_sent' = Append(is_sent, is_pairs[is_i].response)]_xvars
    /\ [][(is_pc = "raised" /\ is_ops' = is_ops) => is_sent' = is_sent]_xvars
    /\ [][(is_pc = "expect" /\ is_i <= Len(is_pairs) /\ is_child' = is_child
           /\ is_child = "running" /\ is_pc' = "raised")
          => /\ is_error' = "TimeoutError" /\ is_sent' = is_sent
             /\ \A k \in 1..Len(is_buf) :
                   is_buf[k] # is_pairs[is_i].pattern]_xvars
    /\ [][(is_pc = "expect" /\ is_i <= Len(is_pairs)
           /\ is_child = "exited" /\ is_pc' = "raised")
          => /\ is_error' \in {"EOFError", "OSError"} /\ is_sent' = is_sent
             /\ is_error' = "EOFError" <=>
                   \A k \in 1..Len(is_buf) :
                       is_buf[k] # is_pairs[is_i].pattern]_xvars
    /\ [][(is_ops' # is_ops /\ is_op' = "auto_interact") =>
            is_spawns' = is_spawns + (IF is_child = "none" THEN 1 ELSE 0)]_xvars

\* auto_interact started the child itself, sent the first response, and
\* the child exited before printing the second prompt
C30_Witness ==
    /\ is_op = "auto_interact" /\ is_ops = 1 /\ is_spawns = 1
    /\ Len(is_pairs) = 2 /\ is_sent = <<"r">>
    /\ is_pc = "raised" /\ is_error = "EOFError"
    /\ is_child = "exited"

====
